---- MODULE Spec2Model ----
(***************************************************************************)
(* A model of the KingShot minister scheduler (src/calculator.js).         *)
(*                                                                         *)
(* Representation.                                                         *)
(*  - A clock string "HH:MM" is the pair <<h, m>>; string equality of two  *)
(*    zero-padded clock strings is equality of the pairs, and              *)
(*    timeToMinutes is the only conversion to a number.                    *)
(*  - A name (player, alliance) is a sequence of one-character strings, so *)
(*    that the template keys `${player}-${alliance}` and                   *)
(*    `${alliance}/${player}` are concatenations.                          *)
(*  - A speedup score is a number of HALF hours (the roster may carry      *)
(*    fractional hours); Hours(h) converts a whole number of hours and     *)
(*    MathRound gives Math.round of the score, in hours.                   *)
(*  - The truegold count and the rendered timeSlots text of a record are   *)
(*    copied around by the program but never read by a decision; they are  *)
(*    left out of the records.                                             *)
(***************************************************************************)
EXTENDS Integers, Sequences, FiniteSets, TLC

VARIABLES
    pc,                      \* position of the handler being executed
    players,                 \* the roster handed to calculateScheduleData
    inputs,                  \* the DOM inputs: minHours and the two king days
    schedulerData,           \* the global schedulerData object
    filtered,                \* calculateScheduleData: const filtered
    tempWaitingList,         \* calculateScheduleData: const tempWaitingList
    consolidatedWaitingList, \* calculateScheduleData: const consolidatedWaitingList
    unscheduled,             \* performDisplacement: parameter unscheduled
    assignedPlayerSlots,     \* performDisplacement: parameter assignedPlayerSlots
    changed,                 \* performDisplacement: let changed
    displacements,           \* performDisplacement: const displacements
    speedupProp,             \* the property the evaluator (p) => p[speedupProp] reads
    stage,                   \* calculateScheduleData: the two-round stage being run
    earlier,                 \* history: the inputs and outcome of each completed run
    newPlayer,               \* submitAddPlayer: const newPlayer
    assignmentsMade,         \* submitAddPlayer: assignmentsMade.length
    operations,              \* history: the number of management actions started
    outcome,                 \* history: how the last submitAddPlayer ended
    call,                    \* arguments of a pure function under test
    ret,                     \* its result
    saves,                   \* the saveSchedulerData calls that have not returned
    file                     \* OPFS: the content of scheduler_data_<creationTimeMS>.json

vars == <<pc, players, inputs, schedulerData, filtered, tempWaitingList,
          consolidatedWaitingList, unscheduled, assignedPlayerSlots, changed,
          displacements, speedupProp, stage, earlier, newPlayer, assignmentsMade,
          operations, outcome, call, ret, saves, file>>

manualVars == <<newPlayer, assignmentsMade, operations, outcome>>

runVars == <<players, inputs, schedulerData, filtered, tempWaitingList,
             consolidatedWaitingList, stage, earlier, manualVars>>

dispVars == <<unscheduled, assignedPlayerSlots, changed, displacements, speedupProp>>

pureVars == <<call, ret>>

storageVars == <<saves, file>>

----------------------------------------------------------------------------
(* Bounds of the model.                                                    *)

\* Largest roster handed to a scheduling run.
MaxPlayers == 2

\* Largest number of scheduling runs made one after another.
MaxRuns == 3

\* Largest number of management actions started after a run.
MaxOperations == 2

\* Largest number of candidates (pending plus assigned) handed to performDisplacement.
MaxDispPlayers == 3

\* Longest candidate list handed to assignFirstPass on its own.
MaxPending == 3

\* Longest interval list handed to isSlotAvailable on its own.
MaxRanges == 2

----------------------------------------------------------------------------
(* Sequences and numbers.                                                  *)

Hours(h) == 2 * h

\* Math.round of a non-negative score, in hours (halves round up).
MathRound(x) == (x + 1) \div 2

\* Mutant of RemoveAt: nothing is removed.
KeepAll(s, i) == s

RemoveAt(s, i) == [k \in 1..(Len(s) - 1) |-> IF k < i THEN s[k] ELSE s[k + 1]]

SetMin(S) == CHOOSE x \in S : \A y \in S : x <= y

SetMax(S) == CHOOSE x \in S : \A y \in S : x >= y

RECURSIVE SeqSum(_)
SeqSum(s) == IF s = <<>> THEN 0 ELSE Head(s) + SeqSum(Tail(s))

\* A sort by key that reverses the order of the elements with equal keys.
SortByKeysTiesReversed(s, keys) ==
    LET n == Len(s)
        rank(i) == 1 + Cardinality({j \in 1..n : keys[j] < keys[i] \/ (keys[j] = keys[i] /\ j > i)})
    IN [k \in 1..n |-> s[CHOOSE i \in 1..n : rank(i) = k]]

\* Array.prototype.sort with the comparator (a, b) => keys(a) - keys(b): ascending
\* by key, equal keys keep their order (the sort is stable).
StableSortByKeys(s, keys) ==
    LET n == Len(s)
        rank(i) == 1 + Cardinality({j \in 1..n : keys[j] < keys[i] \/ (keys[j] = keys[i] /\ j < i)})
    IN [k \in 1..n |-> s[CHOOSE i \in 1..n : rank(i) = k]]

----------------------------------------------------------------------------
(* Time model, slot grid and availability.                                 *)

timeToMinutes(time) == time[1] * 60 + time[2]

\* The 48 slots of a day, in catalog order. Slot k starts at hour (k-1) div 2,
\* minute 0 or 30; the end hour is hour + floor((minute+30)/60) and the end
\* minute is (minute + 10) % 60.
generateTimeSlots ==
    [k \in 1..48 |->
        LET hour == (k - 1) \div 2
            minute == 30 * ((k - 1) % 2)
            endHour == hour + ((minute + 30) \div 60)
            endMinute == minute + 10
            endMin == endMinute % 60
        IN [start |-> <<hour, minute>>, end |-> <<endHour % 24, endMin>>]]

\* Mutant of MinOverlap: exactly 10 minutes of overlap is not enough.
MinOverlapStrict(totalOverlap) == totalOverlap > 10

\* The availability threshold of isSlotAvailable: totalOverlap >= 10.
MinOverlap(totalOverlap) == totalOverlap >= 10

isSlotAvailable(player, slotStart, slotEnd) ==
    LET slotStartMin == timeToMinutes(slotStart)
        slotEndMin == timeToMinutes(slotEnd)
        ranges == player.availableTimeRanges
        overallStart == SetMin({timeToMinutes(ranges[i].start) : i \in 1..Len(ranges)})
        overallEnd == SetMax({timeToMinutes(ranges[i].end) : i \in 1..Len(ranges)})
        adjustedSlotEndMin == IF slotEndMin < slotStartMin THEN slotEndMin + 1440 ELSE slotEndMin
        adjustedOverallEnd == IF overallEnd < overallStart THEN overallEnd + 1440 ELSE overallEnd
        overlap(range) ==
            LET overlapStart == IF slotStartMin > timeToMinutes(range.start)
                                THEN slotStartMin ELSE timeToMinutes(range.start)
                overlapEnd == IF slotEndMin < timeToMinutes(range.end)
                              THEN slotEndMin ELSE timeToMinutes(range.end)
            IN IF overlapEnd - overlapStart > 0 THEN overlapEnd - overlapStart ELSE 0
        totalOverlap == SeqSum([i \in 1..Len(ranges) |-> overlap(ranges[i])])
    IN IF Len(ranges) = 0 THEN TRUE
       ELSE IF slotStartMin < overallStart THEN FALSE
       ELSE IF adjustedSlotEndMin > adjustedOverallEnd THEN FALSE
       ELSE IF slotEndMin < slotStartMin THEN TRUE
       ELSE MinOverlap(totalOverlap)

getTotalAvailableMinutes(player) ==
    LET ranges == player.availableTimeRanges
        span(range) ==
            LET start == timeToMinutes(range.start)
                end == timeToMinutes(range.end)
            IN (IF end < start THEN end + 1440 ELSE end) - start
    IN SeqSum([i \in 1..Len(ranges) |-> span(ranges[i])])

getAllSpeedupsSum(player) == player.soldierTraining + player.construction + player.research

----------------------------------------------------------------------------
(* The greedy pass.                                                        *)

\* Mutant of FindFreeSlot: the first unclaimed slot, available or not.
FindFreeSlotUnchecked(candidate, slots, assigned) ==
    LET free == {k \in 1..Len(slots) :
                    \A j \in 1..Len(assigned) : assigned[j].slot.start # slots[k].start}
    IN IF free = {} THEN 0 ELSE SetMin(free)

\* slots.find(s => !assignedPlayerSlots.some(ap => ap.slot.start === s.start)
\*                 && isSlotAvailable(candidate, s.start, s.end)):
\* the index of the first such slot, 0 when find returns undefined.
FindFreeSlot(candidate, slots, assigned) ==
    LET fits == {k \in 1..Len(slots) :
                    /\ \A j \in 1..Len(assigned) : assigned[j].slot.start # slots[k].start
                    /\ isSlotAvailable(candidate, slots[k].start, slots[k].end)}
    IN IF fits = {} THEN 0 ELSE SetMin(fits)

\* Mutant of SortByAvailableMinutes: the candidates are taken in input order.
SortNothing(list) == list

\* unscheduled.sort((a, b) => getTotalAvailableMinutes(a) - getTotalAvailableMinutes(b))
SortByAvailableMinutes(list) ==
    StableSortByKeys(list, [i \in 1..Len(list) |-> getTotalAvailableMinutes(list[i])])

\* The for loop of assignFirstPass from index i on (1-based): a placed candidate
\* is spliced out and the index stays, an unplaced one is stepped over.
RECURSIVE FirstPassFrom(_, _, _, _)
FirstPassFrom(i, list, slots, assigned) ==
    IF i > Len(list)
    THEN [unscheduled |-> list, assignedPlayerSlots |-> assigned]
    ELSE LET candidate == list[i]
             k == FindFreeSlot(candidate, slots, assigned)
         IN IF k # 0
            THEN FirstPassFrom(i, RemoveAt(list, i), slots,
                               Append(assigned, [player |-> candidate, slot |-> slots[k]]))
            ELSE FirstPassFrom(i + 1, list, slots, assigned)

assignFirstPass(list, slots, assigned) ==
    FirstPassFrom(1, SortByAvailableMinutes(list), slots, assigned)

----------------------------------------------------------------------------
(* The displacement pass.                                                  *)

\* evaluator: (p) => p[speedupProp]
Evaluate(p, prop) == p[prop]

\* Mutants of DisplacementBeats: a tie also displaces; a lower value displaces.
DisplacementBeatsOrTies(candidateValue, minTargetValue) == candidateValue >= minTargetValue

DisplacementBeatsWhenLower(candidateValue, minTargetValue) == candidateValue < minTargetValue

DisplacementBeatsWhenDifferent(candidateValue, minTargetValue) == candidateValue # minTargetValue

\* Mutant of DisplacementBeats: no pending candidate ever takes a slot.
DisplacementBeatsNever(candidateValue, minTargetValue) == FALSE

\* The condition under which a candidate takes its target's slot (the negation of
\* the continue test candidateValue <= minTargetValue).
DisplacementBeats(candidateValue, minTargetValue) == candidateValue > minTargetValue

\* Mutant of BestTargetIndex: the first pairing whose slot the candidate is
\* available for, whatever its value.
FirstTargetIndex(candidate, assigned, prop) ==
    LET compatible == {j \in 1..Len(assigned) :
                          isSlotAvailable(candidate, assigned[j].slot.start, assigned[j].slot.end)}
    IN IF compatible = {} THEN 0 ELSE SetMin(compatible)

\* The inner loop over assignedPlayerSlots: the first index holding the lowest
\* evaluator value among the pairings whose slot the candidate is available for;
\* 0 stands for bestTargetIndex === -1.
BestTargetIndex(candidate, assigned, prop) ==
    LET compatible == {j \in 1..Len(assigned) :
                          isSlotAvailable(candidate, assigned[j].slot.start, assigned[j].slot.end)}
        value(j) == Evaluate(assigned[j].player, prop)
    IN IF compatible = {} THEN 0
       ELSE CHOOSE j \in compatible :
                \A k \in compatible : value(j) < value(k) \/ (value(j) = value(k) /\ j <= k)

\* unscheduled.sort((a, b) => evaluator(b) - evaluator(a))
SortByEvaluatorDesc(list, prop) ==
    StableSortByKeys(list, [i \in 1..Len(list) |-> 0 - Evaluate(list[i], prop)])

\* Mutant of DisplacementContinues: the loop gives up on a single pending candidate.
DisplacementStopsShort(isChanged, list) == isChanged /\ Len(list) > 1

\* The loop test of performDisplacement.
DisplacementContinues(isChanged, list) == isChanged /\ Len(list) > 0

\* One iteration of the while loop of performDisplacement: sort, then scan the
\* pending candidates for the first that beats its best target, swap and break.
DisplacementPass(list, assigned, prop) ==
    LET sorted == SortByEvaluatorDesc(list, prop)
        swaps(i) ==
            LET j == BestTargetIndex(sorted[i], assigned, prop)
            IN /\ j # 0
               /\ DisplacementBeats(Evaluate(sorted[i], prop), Evaluate(assigned[j].player, prop))
        swappers == {i \in 1..Len(sorted) : swaps(i)}
    IN IF swappers = {}
       THEN [unscheduled |-> sorted, assignedPlayerSlots |-> assigned,
             changed |-> FALSE, displacements |-> <<>>]
       ELSE LET i == SetMin(swappers)
                candidate == sorted[i]
                bestTargetIndex == BestTargetIndex(candidate, assigned, prop)
                displacedPlayer == assigned[bestTargetIndex].player
                displacedSlot == assigned[bestTargetIndex].slot
            IN [unscheduled |-> Append(RemoveAt(sorted, i), displacedPlayer),
                assignedPlayerSlots |->
                    [assigned EXCEPT ![bestTargetIndex] = [player |-> candidate, slot |-> displacedSlot]],
                changed |-> TRUE,
                displacements |-> <<[candidate |-> candidate, displaced |-> displacedPlayer,
                                     slot |-> displacedSlot]>>]

RECURSIVE DisplacementLoop(_, _, _, _)
DisplacementLoop(isChanged, list, assigned, prop) ==
    IF DisplacementContinues(isChanged, list)
    THEN LET r == DisplacementPass(list, assigned, prop)
         IN DisplacementLoop(r.changed, r.unscheduled, r.assignedPlayerSlots, prop)
    ELSE [unscheduled |-> list, assignedPlayerSlots |-> assigned]

performDisplacement(list, assigned, prop) == DisplacementLoop(TRUE, list, assigned, prop)

----------------------------------------------------------------------------
(* Values shared by the specifications.                                    *)

\* The one-character names candidates are given, by position in a roster.
PlayerNames == <<"a", "b", "c", "d", "e", "f">>

Player(i, general, usedFor, training, construction, research, ranges) ==
    [player |-> <<PlayerNames[i]>>, alliance |-> <<"x">>,
     generalSpeedups |-> general, generalUsedFor |-> usedFor,
     soldierTraining |-> training, construction |-> construction, research |-> research,
     availableTimeRanges |-> ranges]

Range(startTime, endTime) == [start |-> startTime, end |-> endTime]

\* const schedulerData = { ... } as constructed when the script loads.
EmptyAssignments ==
    [day \in 1..5 |-> [ministers |-> <<>>, advisors |-> <<>>]]

InitialSchedulerData ==
    [rawPlayers |-> <<>>, processedPlayers |-> <<>>, assignments |-> EmptyAssignments,
     waitingList |-> <<>>, filteredOut |-> <<>>,
     constructionAssignments |-> <<>>, researchAssignments |-> <<>>,
     trainingAssignments |-> <<>>,
     minHours |-> 20, constructionKingDay |-> 1, researchKingDay |-> 2]

RunIdle ==
    /\ players = <<>>
    /\ inputs = [minHoursInput |-> 20, constructionKingDay |-> 1, researchKingDay |-> 2]
    /\ schedulerData = InitialSchedulerData
    /\ filtered = <<>>
    /\ tempWaitingList = <<>>
    /\ consolidatedWaitingList = <<>>
    /\ stage = "none"
    /\ earlier = <<>>
    /\ newPlayer = <<>>
    /\ assignmentsMade = 0
    /\ operations = 0
    /\ outcome = "none"

DispIdle ==
    /\ unscheduled = <<>>
    /\ assignedPlayerSlots = <<>>
    /\ changed = FALSE
    /\ displacements = <<>>
    /\ speedupProp = "construction"

PureIdle ==
    /\ call = <<>>
    /\ ret = <<>>

\* No save has been started and the file does not exist.
StorageIdle ==
    /\ saves = <<>>
    /\ file = <<>>

----------------------------------------------------------------------------
(* Keys, flags and records of the scheduler state.                         *)

\* `${p[PLAYER]}-${p[ALLIANCE]}`, the key of the three assignment-flag maps.
PlayerId(p) == p.player \o <<"-">> \o p.alliance

\* `${waitingPlayer.alliance}/${waitingPlayer.player}`, the key of seenPlayers.
WaitingKey(w) == w.alliance \o <<"/">> \o w.player

\* map[key] read as a condition: a missing key reads undefined, which is falsy.
Flag(map, key) == key \in DOMAIN map /\ map[key]

\* map[key] = value
SetFlag(map, key, value) ==
    [k \in (DOMAIN map) \cup {key} |-> IF k = key THEN value ELSE map[k]]

\* The waiting entry the passes push for an unplaced player.
WaitingEntry(player) ==
    [alliance |-> player.alliance, player |-> player.player,
     speedups |-> [soldier |-> MathRound(player.soldierTraining),
                   construction |-> MathRound(player.construction),
                   research |-> MathRound(player.research)]]

\* An appointment; speedups is the sequence of the numbers its text is made of
\* (`${a}` is <<a>>, `${a} / ${b}` is <<a, b>>), or a number for an advisor.
Appointment(slot, alliance, player, speedups) ==
    [start |-> slot.start, end |-> slot.end, alliance |-> alliance, player |-> player,
     speedups |-> speedups]

\* filtered.find(p => p[PLAYER] === w.player && p[ALLIANCE] === w.alliance):
\* the index of the first match, 0 for undefined.
FindPlayer(list, w) ==
    LET hits == {i \in 1..Len(list) : list[i].player = w.player /\ list[i].alliance = w.alliance}
    IN IF hits = {} THEN 0 ELSE SetMin(hits)

\* new Set(schedulerData.assignments[day].ministers.map(a => a.start))
TakenStarts(appointments) == {appointments[i].start : i \in 1..Len(appointments)}

\* The first slot of the catalog whose start is not in taken and that the player
\* is available for; 0 when the for loop over the slots ends without a break.
FirstOpenSlot(player, slots, taken) ==
    LET fits == {k \in 1..Len(slots) :
                    /\ slots[k].start \notin taken
                    /\ isSlotAvailable(player, slots[k].start, slots[k].end)}
    IN IF fits = {} THEN 0 ELSE SetMin(fits)

----------------------------------------------------------------------------
(* allocateGeneralSpeedups. generalUsedFor is the list of the trimmed,     *)
(* lower-cased texts between the commas of the field.                      *)

AddTo(player, category, amount) ==
    IF category = "soldier training"
    THEN [player EXCEPT !.soldierTraining = @ + amount]
    ELSE IF category = "construction"
    THEN [player EXCEPT !.construction = @ + amount]
    ELSE IF category = "research"
    THEN [player EXCEPT !.research = @ + amount]
    ELSE player

RECURSIVE AddToEach(_, _, _)
AddToEach(player, categories, amount) ==
    IF categories = <<>> THEN player
    ELSE AddToEach(AddTo(player, Head(categories), amount), Tail(categories), amount)

\* The pools of the model are multiples of 15 hours, for which speedups / 3,
\* speedups * 0.6 and speedups * 0.4 are exact.
allocateGeneralSpeedups(player) ==
    LET renamed == [i \in 1..Len(player.generalUsedFor) |->
                       IF player.generalUsedFor[i] = "training" THEN "soldier training"
                       ELSE player.generalUsedFor[i]]
        usedFor == SelectSeq(renamed, LAMBDA c : c # "")
        numCategories == Len(usedFor)
        speedups == player.generalSpeedups
    IN IF numCategories = 0
       THEN AddToEach(player, <<"soldier training", "construction", "research">>, speedups \div 3)
       ELSE IF numCategories = 2
       THEN AddTo(AddTo(player, usedFor[1], (speedups * 6) \div 10),
                  usedFor[2], (speedups * 4) \div 10)
       ELSE AddToEach(player, usedFor, speedups \div numCategories)

----------------------------------------------------------------------------
(* The day schedulers: what assignInitialMinisters and scheduleTrainingDay *)
(* do with the outcome of their two rounds. rounds is the record of the    *)
(* unscheduled and assignedPlayerSlots lists as round 2 left them.         *)

\* assignedPlayerSlots.forEach(...): push one appointment per pairing on
\* sd.assignments[day][role] and set each paired player's flag in sd[flagName].
\* speedups[i] is the speedups field of the appointment of pairs[i].
PushAppointments(sd, pairs, day, role, flagName, speedups) ==
    LET apps == [i \in 1..Len(pairs) |->
                    Appointment(pairs[i].slot, pairs[i].player.alliance, pairs[i].player.player,
                                speedups[i])]
        keys == {PlayerId(pairs[i].player) : i \in 1..Len(pairs)}
    IN [sd EXCEPT !.assignments[day][role] = @ \o apps,
                  ![flagName] = [k \in (DOMAIN sd[flagName]) \cup keys |->
                                    IF k \in keys THEN TRUE ELSE sd[flagName][k]]]

\* tempWaitingList.push(...unscheduled.map(player => ({...})))
PushWaiting(waiting, list) == waiting \o [i \in 1..Len(list) |-> WaitingEntry(list[i])]

\* The end of assignInitialMinisters: the appointments and flags of the
\* pairings, the waiting entries of the unscheduled.
FinalizeMinisters(day, prop, assignmentFlag, sd, waiting, rounds) ==
    [schedulerData |->
        PushAppointments(sd, rounds.assignedPlayerSlots, day, "ministers", assignmentFlag,
                         [i \in 1..Len(rounds.assignedPlayerSlots) |->
                             <<MathRound(rounds.assignedPlayerSlots[i].player[prop])>>]),
     tempWaitingList |-> PushWaiting(waiting, rounds.unscheduled)]

\* Stage 1 of scheduleTrainingDay, from "Finalize Advisor Assignments" on.
FinalizeAdvisors(sd, rounds) ==
    PushAppointments(sd, rounds.assignedPlayerSlots, 4, "advisors", "trainingAssignments",
                     [i \in 1..Len(rounds.assignedPlayerSlots) |->
                         MathRound(rounds.assignedPlayerSlots[i].player.soldierTraining)])

\* The filter of the overflow stage: not assigned as advisor, and research flag
\* not set.
OverflowCandidate(sd, p) ==
    /\ ~Flag(sd.trainingAssignments, PlayerId(p))
    /\ ~Flag(sd.researchAssignments, PlayerId(p))

\* Stage 2 of scheduleTrainingDay, from "Finalize Minister Overflow Assignments" on.
FinalizeOverflow(sd, waiting, rounds) ==
    [schedulerData |->
        PushAppointments(sd, rounds.assignedPlayerSlots, 4, "ministers", "researchAssignments",
                         [i \in 1..Len(rounds.assignedPlayerSlots) |->
                             <<MathRound(rounds.assignedPlayerSlots[i].player.construction),
                               MathRound(rounds.assignedPlayerSlots[i].player.research)>>]),
     tempWaitingList |-> PushWaiting(waiting, rounds.unscheduled)]

----------------------------------------------------------------------------
(* Waiting-list consolidation, spillover and the Day 3 last resort.        *)

\* tempWaitingList.forEach(... seenPlayers.set(key, waitingPlayer) unless seen):
\* the first entry of each key, in order of first appearance.
ConsolidateWaiting(waiting) ==
    LET firsts == SelectSeq([i \in 1..Len(waiting) |-> i],
                            LAMBDA i : \A j \in 1..(i - 1) :
                                           WaitingKey(waiting[j]) # WaitingKey(waiting[i]))
    IN [k \in 1..Len(firsts) |-> waiting[firsts[k]]]

\* potentialDays.find(d => d !== constructDay && d !== researchDay)
OtherDay(constructDay, researchDay) ==
    SetMin({k \in 1..3 : <<1, 2, 5>>[k] # constructDay /\ <<1, 2, 5>>[k] # researchDay})

SpilloverDay(constructDay, researchDay) == <<1, 2, 5>>[OtherDay(constructDay, researchDay)]

\* waitingList.sort((a, b) => getAllSpeedupsSum(playerB) - getAllSpeedupsSum(playerA)),
\* the players looked up in filtered. Every entry was made from a player of
\* filtered, so the lookups succeed.
SortBySpeedupsSumDesc(waiting, list) ==
    StableSortByKeys(waiting,
        [i \in 1..Len(waiting) |->
            IF FindPlayer(list, waiting[i]) = 0 THEN 0
            ELSE 0 - getAllSpeedupsSum(list[FindPlayer(list, waiting[i])])])

\* Mutant of PurposeToSet: a candidate holding both flags is still placed.
PurposeToSetAnyway(sd, day, constructDay, researchDay, playerId) ==
    IF ~Flag(sd.researchAssignments, playerId) /\ Flag(sd.constructionAssignments, playerId)
    THEN "researchAssignments"
    ELSE "constructionAssignments"

\* The flag map a spillover placement on this day sets, "" when canAssign stays
\* false.
PurposeToSet(sd, day, constructDay, researchDay, playerId) ==
    IF day = constructDay
    THEN IF ~Flag(sd.constructionAssignments, playerId) THEN "constructionAssignments" ELSE ""
    ELSE IF day = researchDay
    THEN IF ~Flag(sd.researchAssignments, playerId) THEN "researchAssignments" ELSE ""
    ELSE IF ~Flag(sd.constructionAssignments, playerId) THEN "constructionAssignments"
    ELSE IF ~Flag(sd.researchAssignments, playerId) THEN "researchAssignments"
    ELSE ""

\* The body of the inner loop of the spillover stage for one waiting player.
\* st is [schedulerData, consolidatedWaitingList]. The entry's speedups are
\* whole numbers already, so Math.round leaves them as they are.
SpilloverTry(st, day, w, constructDay, researchDay, list) ==
    LET sd == st.schedulerData
        playerId == w.player \o <<"-">> \o w.alliance
        found == FindPlayer(list, w)
        purposeToSet == PurposeToSet(sd, day, constructDay, researchDay, playerId)
        k == FirstOpenSlot(list[found], generateTimeSlots,
                           TakenStarts(sd.assignments[day].ministers))
        app == Appointment(generateTimeSlots[k], w.alliance, w.player,
                           <<w.speedups.construction, w.speedups.research>>)
        at == SetMin({i \in 1..Len(st.consolidatedWaitingList) : st.consolidatedWaitingList[i] = w})
    IN IF \A i \in 1..Len(st.consolidatedWaitingList) : st.consolidatedWaitingList[i] # w THEN st
       ELSE IF found = 0 THEN st
       ELSE IF purposeToSet = "" THEN st
       ELSE IF k = 0 THEN st
       ELSE [schedulerData |->
                [sd EXCEPT !.assignments[day].ministers = Append(@, app),
                           ![purposeToSet] = SetFlag(@, playerId, TRUE)],
             consolidatedWaitingList |-> RemoveAt(st.consolidatedWaitingList, at)]

RECURSIVE SpilloverLoop(_, _, _, _, _, _, _)
\* for (const waitingPlayer of dailyWaitingList) from index i on.
SpilloverLoop(st, day, daily, i, constructDay, researchDay, list) ==
    IF i > Len(daily) THEN st
    ELSE SpilloverLoop(SpilloverTry(st, day, daily[i], constructDay, researchDay, list),
                       day, daily, i + 1, constructDay, researchDay, list)

\* One iteration of for (const day of priorityDays).
SpilloverOnDay(st, day, constructDay, researchDay, list) ==
    LET daily == IF day = SpilloverDay(constructDay, researchDay)
                 THEN SortBySpeedupsSumDesc(st.consolidatedWaitingList, list)
                 ELSE st.consolidatedWaitingList
    IN SpilloverLoop(st, day, daily, 1, constructDay, researchDay, list)

\* The spillover stage: priorityDays = [constructDay, researchDay, otherDay].
SpilloverStage(st, constructDay, researchDay, list) ==
    LET first == SpilloverOnDay(st, constructDay, constructDay, researchDay, list)
        second == SpilloverOnDay(first, researchDay, constructDay, researchDay, list)
    IN SpilloverOnDay(second, SpilloverDay(constructDay, researchDay),
                      constructDay, researchDay, list)

\* The Day 3 eligibility test, on the rounded scores of the waiting entry.
LastResortEligible(w, minHours) == ~(w.speedups.construction + w.speedups.research < minHours)

\* The body of the Day 3 loop for one waiting player.
LastResortTry(st, w, minHours, list) ==
    LET sd == st.schedulerData
        playerId == w.player \o <<"-">> \o w.alliance
        found == FindPlayer(list, w)
        k == FirstOpenSlot(list[found], generateTimeSlots, TakenStarts(sd.assignments[3].ministers))
        app == Appointment(generateTimeSlots[k], w.alliance, w.player,
                           <<w.speedups.construction, w.speedups.research>>)
        at == SetMin({i \in 1..Len(st.consolidatedWaitingList) : st.consolidatedWaitingList[i] = w})
    IN IF found = 0 THEN st
       ELSE IF ~LastResortEligible(w, minHours) THEN st
       ELSE IF k = 0 THEN st
       ELSE [schedulerData |->
                [sd EXCEPT !.assignments[3].ministers = Append(@, app),
                           !.constructionAssignments = SetFlag(@, playerId, TRUE),
                           !.researchAssignments = SetFlag(@, playerId, TRUE),
                           !.trainingAssignments = SetFlag(@, playerId, TRUE)],
             consolidatedWaitingList |-> RemoveAt(st.consolidatedWaitingList, at)]

RECURSIVE LastResortLoop(_, _, _, _, _)
\* for (const waitingPlayer of consolidatedWaitingList.slice()) from index i on.
LastResortLoop(st, snapshot, i, minHours, list) ==
    IF i > Len(snapshot) THEN st
    ELSE LastResortLoop(LastResortTry(st, snapshot[i], minHours, list),
                        snapshot, i + 1, minHours, list)

LastResortStage(st, minHours, list) ==
    LET sorted == SortBySpeedupsSumDesc(st.consolidatedWaitingList, list)
    IN LastResortLoop([st EXCEPT !.consolidatedWaitingList = sorted], sorted, 1, minHours, list)

----------------------------------------------------------------------------
(* performDisplacement on its own, one loop iteration per step.            *)

\* Evaluator values and availabilities the candidates are drawn from, and the
\* grid slots (by catalog index) an incumbent may hold.
DispValues == {Hours(20), Hours(25), Hours(30)}

DispRanges == {<<>>, <<Range(<<0, 0>>, <<0, 30>>)>>}

DispPlaces == {0, 1, 3}

DispChoices == DispValues \X DispRanges \X DispPlaces

DispPlayer(f, i) == Player(i, 0, <<>>, 0, f[i][1], 0, f[i][2])

DispPending(f, n) ==
    LET idx == SelectSeq([i \in 1..n |-> i], LAMBDA i : f[i][3] = 0)
    IN [k \in 1..Len(idx) |-> DispPlayer(f, idx[k])]

DispAssigned(f, n) ==
    LET idx == SelectSeq([i \in 1..n |-> i], LAMBDA i : f[i][3] # 0)
    IN [k \in 1..Len(idx) |->
           [player |-> DispPlayer(f, idx[k]), slot |-> generateTimeSlots[f[idx[k]][3]]]]

InitDisp ==
    /\ pc = "idle"
    /\ DispIdle
    /\ RunIdle
    /\ PureIdle
    /\ StorageIdle

\* A caller hands performDisplacement its two lists and its evaluator; the
\* function sets displacements = [] and changed = true.
DisplaceCall ==
    /\ pc = "idle"
    /\ \E n \in 0..MaxDispPlayers : \E f \in [1..n -> DispChoices] :
           /\ unscheduled' = DispPending(f, n)
           /\ assignedPlayerSlots' = DispAssigned(f, n)
    /\ changed' = TRUE
    /\ displacements' = <<>>
    /\ speedupProp' = "construction"
    /\ pc' = "displace"
    /\ UNCHANGED <<runVars, pureVars>>
    /\ UNCHANGED storageVars

\* One iteration of while (changed && unscheduled.length > 0).
DisplaceIterate ==
    /\ pc = "displace"
    /\ DisplacementContinues(changed, unscheduled)
    /\ LET r == DisplacementPass(unscheduled, assignedPlayerSlots, speedupProp)
       IN /\ unscheduled' = r.unscheduled
          /\ assignedPlayerSlots' = r.assignedPlayerSlots
          /\ changed' = r.changed
          /\ displacements' = displacements \o r.displacements
    /\ UNCHANGED <<pc, speedupProp, runVars, pureVars>>
    /\ UNCHANGED storageVars

\* The loop test fails: return displacements.
DisplaceReturn ==
    /\ pc = "displace"
    /\ ~DisplacementContinues(changed, unscheduled)
    /\ pc' = "returned"
    /\ UNCHANGED <<dispVars, runVars, pureVars>>
    /\ UNCHANGED storageVars

NextDisp == DisplaceCall \/ DisplaceIterate \/ DisplaceReturn

SpecDisp == InitDisp /\ [][NextDisp]_vars

----------------------------------------------------------------------------
(* Claims about performDisplacement.                                       *)

\* The assigned pairings whose slot candidate p is available for.
CompatibleIncumbents(p) ==
    {j \in 1..Len(assignedPlayerSlots) :
        isSlotAvailable(p, assignedPlayerSlots[j].slot.start, assignedPlayerSlots[j].slot.end)}

IncumbentValue(j) == Evaluate(assignedPlayerSlots[j].player, speedupProp)

\* C5: when performDisplacement has returned, no pending candidate with at least
\* one slot-compatible incumbent has a value strictly higher than the value of
\* every slot-compatible incumbent.
C5_NoPendingBeatsAllCompatible ==
    pc = "returned" =>
        \A i \in 1..Len(unscheduled) :
            LET compatible == CompatibleIncumbents(unscheduled[i])
            IN compatible # {} =>
                   \E j \in compatible :
                       Evaluate(unscheduled[i], speedupProp) <= IncumbentValue(j)

\* Witness of C5: the pass has swapped and returned, and a pending candidate
\* still has an incumbent whose slot it could fill.
C5_Witness ==
    /\ pc = "returned"
    /\ Len(displacements) > 0
    /\ \E i \in 1..Len(unscheduled) : CompatibleIncumbents(unscheduled[i]) # {}

\* C6: a step of performDisplacement that changes the holder of a slot puts in a
\* candidate whose value is strictly greater than the value of the incumbent it
\* displaces; a candidate of equal value never displaces.
C6_SwapOnlyStrictlyHigher ==
    [][\A j \in 1..Len(assignedPlayerSlots) :
           assignedPlayerSlots'[j] # assignedPlayerSlots[j] =>
               Evaluate(assignedPlayerSlots'[j].player, speedupProp)
                   > Evaluate(assignedPlayerSlots[j].player, speedupProp)]_vars

\* Witness of C6: after a swap the pass has returned with a pending candidate
\* that ties with an incumbent whose slot it could fill, and the tie was kept.
C6_Witness ==
    /\ pc = "returned"
    /\ Len(displacements) > 0
    /\ \E i \in 1..Len(unscheduled) : \E j \in CompatibleIncumbents(unscheduled[i]) :
           Evaluate(unscheduled[i], speedupProp) = IncumbentValue(j)

\* The evaluator values present among the candidates of the call; the pass only
\* moves candidates between the two lists, so the set is the same in every step.
CandidateValues ==
    {Evaluate(unscheduled[i], speedupProp) : i \in 1..Len(unscheduled)}
        \cup {IncumbentValue(j) : j \in 1..Len(assignedPlayerSlots)}

\* C7: performDisplacement terminates. Every iteration of its loop either
\* performs a swap or leaves the loop test false, and the number of swaps never
\* exceeds the number of assigned pairings times the number of steps between
\* the distinct evaluator values of the call's candidates; so the loop ends
\* after a bounded number of passes, the last of them without a swap.
C7_Terminates ==
    /\ [](Len(displacements)
             <= Len(assignedPlayerSlots) * (Cardinality(CandidateValues) - 1)
           \/ Len(displacements) = 0)
    /\ [][pc = "displace" =>
              \/ Len(displacements') = Len(displacements) + 1
              \/ ~DisplacementContinues(changed', unscheduled')
              \/ pc' = "returned"]_vars

\* Witness of C7: a call that swapped, then completed a pass without a swap and
\* returned.
C7_Witness ==
    /\ pc = "returned"
    /\ Len(displacements) > 0
    /\ changed = FALSE

MinAssignedValue(assigned, prop) ==
    SetMin({Evaluate(assigned[j].player, prop) : j \in 1..Len(assigned)})

SumAssignedValue(assigned, prop) ==
    SeqSum([j \in 1..Len(assigned) |-> Evaluate(assigned[j].player, prop)])

Swapped == Len(displacements') = Len(displacements) + 1

\* C8 as stated: every swap strictly increases the minimum evaluator value held
\* in the assigned pairings.
C8_SwapRaisesMinimum ==
    [][Swapped =>
          MinAssignedValue(assignedPlayerSlots', speedupProp)
              > MinAssignedValue(assignedPlayerSlots, speedupProp)]_vars

\* C8 as amended: every swap strictly increases the sum of the evaluator values
\* held in the assigned pairings, and never decreases their minimum.
C8_SwapRaisesSum ==
    [][Swapped =>
          /\ SumAssignedValue(assignedPlayerSlots', speedupProp)
                 > SumAssignedValue(assignedPlayerSlots, speedupProp)
          /\ MinAssignedValue(assignedPlayerSlots', speedupProp)
                 >= MinAssignedValue(assignedPlayerSlots, speedupProp)]_vars

\* Witness of C8: a swap has happened while another incumbent, not displaced,
\* holds the minimum.
C8_Witness ==
    /\ Len(displacements) > 0
    /\ Len(assignedPlayerSlots) > 1
    /\ \E j \in 1..Len(assignedPlayerSlots) :
           /\ assignedPlayerSlots[j].player # displacements[Len(displacements)].candidate
           /\ IncumbentValue(j) = MinAssignedValue(assignedPlayerSlots, speedupProp)

\* C21: in every swap the displaced incumbent held a slot the displacing
\* candidate is available for and had the lowest evaluator value among all
\* the incumbents holding such a slot: none with a strictly lower value is
\* left in place.
C21_SwapTakesLowestCompatible ==
    [][Swapped =>
          LET d == displacements'[Len(displacements')]
          IN /\ \E j \in CompatibleIncumbents(d.candidate) :
                    /\ assignedPlayerSlots[j] = [player |-> d.displaced, slot |-> d.slot]
                    /\ assignedPlayerSlots'[j] = [player |-> d.candidate, slot |-> d.slot]
             /\ \A j \in CompatibleIncumbents(d.candidate) :
                    Evaluate(d.displaced, speedupProp) <= IncumbentValue(j)]_vars

\* Witness of C21: the candidate of the last swap could also fill the slot of
\* another incumbent, listed before the displaced one, whose value is higher
\* than the displaced incumbent's and lower than the candidate's.
C21_Witness ==
    /\ Len(displacements) > 0
    /\ LET d == displacements[Len(displacements)]
       IN \E j, k \in CompatibleIncumbents(d.candidate) :
              /\ j < k
              /\ assignedPlayerSlots[k] = [player |-> d.candidate, slot |-> d.slot]
              /\ IncumbentValue(j) > Evaluate(d.displaced, speedupProp)
              /\ IncumbentValue(j) < Evaluate(d.candidate, speedupProp)

\* The candidates of the two lists, pending first.
AllCandidates(pending, assigned) ==
    pending \o [j \in 1..Len(assigned) |-> assigned[j].player]

Occurrences(list, p) == Cardinality({i \in 1..Len(list) : list[i] = p})

\* C30: performDisplacement changes neither the number of assigned pairings
\* nor the slot any of them claims, and it conserves the candidates: every
\* candidate occurs in pending plus assigned as often after an iteration as
\* before it, and since the lists of a call name each candidate once, each
\* is in exactly one place of exactly one list throughout.
C30_DisplacementConservesCandidates ==
    /\ [][pc = "displace" =>
              /\ Len(assignedPlayerSlots') = Len(assignedPlayerSlots)
              /\ \A j \in 1..Len(assignedPlayerSlots) :
                     assignedPlayerSlots'[j].slot = assignedPlayerSlots[j].slot
              /\ LET before == AllCandidates(unscheduled, assignedPlayerSlots)
                     after == AllCandidates(unscheduled', assignedPlayerSlots')
                 IN /\ Len(after) = Len(before)
                    /\ \A i \in 1..Len(before) :
                           Occurrences(after, before[i]) = Occurrences(before, before[i])]_vars
    /\ [](pc \in {"displace", "returned"} =>
              LET all == AllCandidates(unscheduled, assignedPlayerSlots)
              IN \A i \in 1..Len(all) : Occurrences(all, all[i]) = 1)

\* Witness of C30: a call has returned after two swaps, with a candidate
\* still pending.
C30_Witness ==
    /\ pc = "returned"
    /\ Len(displacements) >= 2
    /\ Len(unscheduled) >= 1
    /\ Len(assignedPlayerSlots) >= 2

----------------------------------------------------------------------------
(* isSlotAvailable on its own.                                             *)

\* Clock times the interval bounds are drawn from, and the grid slots (by
\* catalog index) tried: 00:00, 00:30, 23:00 and 23:30.
AvailTimes == {<<0, 0>>, <<0, 5>>, <<0, 35>>, <<1, 40>>, <<23, 0>>}

AvailSlots == {1, 2, 47, 48}

AvailRanges == {Range(a, b) : a \in AvailTimes, b \in AvailTimes}

AvailRangeLists == UNION {[1..n -> AvailRanges] : n \in 0..MaxRanges}

InitAvail ==
    /\ pc = "call"
    /\ call \in {[ranges |-> r, slotStart |-> generateTimeSlots[k].start,
                  slotEnd |-> generateTimeSlots[k].end] :
                     r \in AvailRangeLists, k \in AvailSlots}
    /\ ret = <<>>
    /\ RunIdle
    /\ DispIdle
    /\ StorageIdle

ApplyIsSlotAvailable ==
    /\ pc = "call"
    /\ ret' = isSlotAvailable(Player(1, 0, <<>>, 0, 0, 0, call.ranges),
                              call.slotStart, call.slotEnd)
    /\ pc' = "returned"
    /\ UNCHANGED <<call, runVars, dispVars>>
    /\ UNCHANGED storageVars

NextAvail == ApplyIsSlotAvailable

SpecAvail == InitAvail /\ [][NextAvail]_vars

\* The result C10 describes. A range contributes the number of minutes of the
\* slot [slot start, slot end) that lie in [range start, range end).
\* adjustLatest tells whether the latest interval end is moved past midnight
\* when it lies before the earliest interval start.
DescribedAvailability(ranges, slotStart, slotEnd, adjustLatest) ==
    LET s == timeToMinutes(slotStart)
        e == timeToMinutes(slotEnd)
        idx == 1..Len(ranges)
        earliest == CHOOSE x \in {timeToMinutes(ranges[i].start) : i \in idx} :
                        \A i \in idx : x <= timeToMinutes(ranges[i].start)
        latest == CHOOSE x \in {timeToMinutes(ranges[i].end) : i \in idx} :
                      \A i \in idx : x >= timeToMinutes(ranges[i].end)
        adjustedEnd == IF e < s THEN e + 1440 ELSE e
        latestUsed == IF adjustLatest /\ latest < earliest THEN latest + 1440 ELSE latest
        minutesIn(i) == Cardinality({m \in s..(e - 1) :
                            timeToMinutes(ranges[i].start) <= m /\ m < timeToMinutes(ranges[i].end)})
        total == SeqSum([i \in idx |-> minutesIn(i)])
    IN IF ranges = <<>> THEN TRUE
       ELSE IF s < earliest \/ adjustedEnd > latestUsed THEN FALSE
       ELSE IF e < s THEN TRUE
       ELSE total >= 10

C11_SlotEndIsStartPlusTen ==
    pc \in {"call", "returned"} =>
        timeToMinutes(call.slotEnd) = (timeToMinutes(call.slotStart) + 10) % 1440

----------------------------------------------------------------------------
(* assignFirstPass on its own.                                             *)

\* The availabilities the candidates of a pass are drawn from.
FirstPassRanges ==
    {<<>>,
     <<Range(<<0, 0>>, <<0, 30>>)>>,
     <<Range(<<0, 0>>, <<2, 0>>)>>,
     <<Range(<<0, 20>>, <<0, 40>>)>>,
     <<Range(<<0, 0>>, <<0, 30>>), Range(<<1, 0>>, <<1, 30>>)>>}

InitFirstPass ==
    /\ pc = "call"
    /\ \E n \in 0..MaxPending : \E f \in [1..n -> FirstPassRanges] :
           call = [unscheduled |-> [i \in 1..n |-> Player(i, 0, <<>>, 0, 0, 0, f[i])]]
    /\ ret = <<>>
    /\ RunIdle
    /\ DispIdle
    /\ StorageIdle

\* assignFirstPass(unscheduled, generateTimeSlots(), []) as its callers call it.
ApplyAssignFirstPass ==
    /\ pc = "call"
    /\ ret' = assignFirstPass(call.unscheduled, generateTimeSlots, <<>>)
    /\ pc' = "returned"
    /\ UNCHANGED <<call, runVars, dispVars>>
    /\ UNCHANGED storageVars

NextFirstPass == ApplyAssignFirstPass

SpecFirstPass == InitFirstPass /\ [][NextFirstPass]_vars

\* Candidate p is processed before candidate q: fewer available minutes, or as
\* many and earlier in the input.
InputPosition(p) == CHOOSE i \in 1..Len(call.unscheduled) : call.unscheduled[i] = p

ProcessedBefore(p, q) ==
    \/ getTotalAvailableMinutes(p) < getTotalAvailableMinutes(q)
    \/ /\ getTotalAvailableMinutes(p) = getTotalAvailableMinutes(q)
       /\ InputPosition(p) < InputPosition(q)

\* The catalog indices of the slots open to p at its turn: not claimed by a
\* candidate processed before p, and available to p.
OpenSlotsAtTurn(p) ==
    LET claimed == {ret.assignedPlayerSlots[j].slot.start :
                        j \in {j \in 1..Len(ret.assignedPlayerSlots) :
                                  ProcessedBefore(ret.assignedPlayerSlots[j].player, p)}}
    IN {k \in 1..Len(generateTimeSlots) :
           /\ generateTimeSlots[k].start \notin claimed
           /\ isSlotAvailable(p, generateTimeSlots[k].start, generateTimeSlots[k].end)}

\* C9: assignFirstPass takes the candidates by ascending total available
\* minutes, ties in input order; each placed candidate holds the first slot, in
\* catalog order, that was unclaimed at its turn and that it is available for;
\* every candidate ends in exactly one of the two lists; and a candidate is
\* left pending exactly when no such slot existed at its turn.
C9_FirstPassFirstFit ==
    pc = "returned" =>
        LET assigned == ret.assignedPlayerSlots
            pending == ret.unscheduled
        IN /\ Len(assigned) + Len(pending) = Len(call.unscheduled)
           /\ \A i \in 1..Len(call.unscheduled) :
                  Cardinality({j \in 1..Len(assigned) : assigned[j].player = call.unscheduled[i]})
                      + Cardinality({j \in 1..Len(pending) : pending[j] = call.unscheduled[i]}) = 1
           /\ \A j \in 1..Len(assigned) :
                  /\ OpenSlotsAtTurn(assigned[j].player) # {}
                  /\ \A k \in OpenSlotsAtTurn(assigned[j].player) :
                         timeToMinutes(assigned[j].slot.start)
                             <= timeToMinutes(generateTimeSlots[k].start)
                  /\ \E k \in OpenSlotsAtTurn(assigned[j].player) :
                         assigned[j].slot = generateTimeSlots[k]
           /\ \A j \in 1..Len(pending) : OpenSlotsAtTurn(pending[j]) = {}
           /\ \A j, k \in 1..Len(assigned) :
                  j < k => ProcessedBefore(assigned[j].player, assigned[k].player)
           /\ \A j, k \in 1..Len(pending) :
                  j < k => ProcessedBefore(pending[j], pending[k])

\* Witness of C9: a pass over an input that was not in ascending order, with a
\* tie, that placed a candidate and left pending a candidate whose only
\* available slots had been claimed before its turn.
C9_Witness ==
    /\ pc = "returned"
    /\ ret.assignedPlayerSlots # <<>>
    /\ \E i, j \in 1..Len(call.unscheduled) :
           /\ i < j
           /\ getTotalAvailableMinutes(call.unscheduled[i])
                  > getTotalAvailableMinutes(call.unscheduled[j])
    /\ \E i, j \in 1..Len(call.unscheduled) :
           /\ i < j
           /\ getTotalAvailableMinutes(call.unscheduled[i])
                  = getTotalAvailableMinutes(call.unscheduled[j])
    /\ \E j \in 1..Len(ret.unscheduled) : \E k \in 1..Len(generateTimeSlots) :
           isSlotAvailable(ret.unscheduled[j], generateTimeSlots[k].start, generateTimeSlots[k].end)

----------------------------------------------------------------------------
(* calculateScheduleData, step by step: the inputs, then for each stage    *)
(* its round 1, the loop of its round 2 and its finalization, then the     *)
(* consolidation, the spillover and the Day 3 last resort.                 *)

\* The kinds of candidate a roster is made of: general pool and its categories,
\* the three base scores, and the availability intervals.
RunProfiles ==
    {[general |-> 0, usedFor |-> <<>>, training |-> Hours(30), construction |-> Hours(30),
      research |-> Hours(30), ranges |-> <<>>],
     [general |-> 0, usedFor |-> <<>>, training |-> 0, construction |-> Hours(30),
      research |-> Hours(20), ranges |-> <<Range(<<0, 0>>, <<0, 30>>)>>],
     [general |-> 0, usedFor |-> <<>>, training |-> 0, construction |-> Hours(20),
      research |-> Hours(30), ranges |-> <<Range(<<0, 0>>, <<0, 30>>)>>],
     [general |-> 0, usedFor |-> <<>>, training |-> Hours(25), construction |-> 0,
      research |-> Hours(25), ranges |-> <<Range(<<0, 0>>, <<0, 30>>)>>],
     [general |-> 0, usedFor |-> <<>>, training |-> Hours(30), construction |-> 0,
      research |-> 0, ranges |-> <<>>],
     [general |-> 0, usedFor |-> <<>>, training |-> 0, construction |-> Hours(10),
      research |-> Hours(10), ranges |-> <<>>],
     [general |-> 0, usedFor |-> <<>>, training |-> Hours(5), construction |-> Hours(5),
      research |-> Hours(5), ranges |-> <<>>],
     [general |-> Hours(15), usedFor |-> <<"construction", "research">>, training |-> 0,
      construction |-> Hours(21), research |-> 0, ranges |-> <<Range(<<0, 0>>, <<0, 30>>)>>],
     [general |-> 0, usedFor |-> <<>>, training |-> Hours(25), construction |-> Hours(25),
      research |-> Hours(25), ranges |-> <<Range(<<0, 0>>, <<2, 0>>)>>],
     [general |-> 0, usedFor |-> <<>>, training |-> Hours(20), construction |-> Hours(50),
      research |-> Hours(20), ranges |-> <<Range(<<0, 0>>, <<0, 30>>)>>],
     [general |-> 0, usedFor |-> <<>>, training |-> Hours(30), construction |-> Hours(20),
      research |-> Hours(30), ranges |-> <<Range(<<0, 0>>, <<0, 30>>)>>],
     [general |-> 0, usedFor |-> <<>>, training |-> 0, construction |-> Hours(30),
      research |-> 0, ranges |-> <<Range(<<0, 30>>, <<0, 45>>)>>]}

KingDays == {1, 2, 5}

Rosters ==
    UNION {{[i \in 1..n |-> Player(i, f[i].general, f[i].usedFor, f[i].training,
                                   f[i].construction, f[i].research, f[i].ranges)] :
               f \in [1..n -> RunProfiles]} : n \in 1..MaxPlayers}

Init ==
    /\ pc = "ready"
    /\ players \in Rosters
    /\ inputs \in [minHoursInput : {20}, constructionKingDay : KingDays, researchKingDay : KingDays]
    /\ schedulerData = InitialSchedulerData
    /\ filtered = <<>>
    /\ tempWaitingList = <<>>
    /\ consolidatedWaitingList = <<>>
    /\ stage = "none"
    /\ earlier = <<>>
    /\ newPlayer = <<>>
    /\ assignmentsMade = 0
    /\ operations = 0
    /\ outcome = "none"
    /\ DispIdle
    /\ PureIdle
    /\ StorageIdle

\* The eligibility filter of calculateScheduleData.
Eligible(player, minHours) ==
    \/ player.construction + player.research >= Hours(minHours)
    \/ player.soldierTraining >= Hours(minHours)

\* The flags calculateScheduleData initialises to false, for the players of list.
InitialFlags(list) == [k \in {PlayerId(list[i]) : i \in 1..Len(list)} |-> FALSE]

\* Mutant of ResetAssignments: the appointment lists of the earlier run stay.
KeepAssignments(assignments) == assignments

\* Line 1062: schedulerData.assignments = { 1: {ministers: [], advisors: []}, ... }
ResetAssignments(assignments) == EmptyAssignments

\* Lines 1039-1076: read the inputs, allocate the general pools, filter, reset
\* the assignments and the flags.
StartRun ==
    /\ pc = "ready"
    /\ LET minHours == inputs.minHoursInput
           processed == [i \in 1..Len(players) |-> allocateGeneralSpeedups(players[i])]
           kept == SelectSeq(processed, LAMBDA p : Eligible(p, minHours))
       IN /\ filtered' = kept
          /\ schedulerData' =
                [schedulerData EXCEPT
                    !.minHours = minHours,
                    !.constructionKingDay = inputs.constructionKingDay,
                    !.researchKingDay = inputs.researchKingDay,
                    !.rawPlayers = players,
                    !.processedPlayers = processed,
                    !.filteredOut = SelectSeq(processed, LAMBDA p :
                                        \A i \in 1..Len(kept) : kept[i] # p),
                    !.assignments = ResetAssignments(@),
                    !.constructionAssignments = InitialFlags(SelectSeq(kept, LAMBDA p :
                        p.construction + p.research >= Hours(minHours))),
                    !.researchAssignments = InitialFlags(SelectSeq(kept, LAMBDA p :
                        p.construction + p.research >= Hours(minHours))),
                    !.trainingAssignments = InitialFlags(SelectSeq(kept, LAMBDA p :
                        p.soldierTraining >= Hours(minHours)))]
    /\ tempWaitingList' = <<>>
    /\ stage' = "construction"
    /\ pc' = "round1"
    /\ UNCHANGED <<players, inputs, consolidatedWaitingList, dispVars, pureVars, earlier, manualVars>>
    /\ UNCHANGED storageVars

\* What a finalize step leaves: the scheduler state and the temporary waiting
\* list, both changed in place.
PassResult(r) ==
    /\ schedulerData' = r.schedulerData
    /\ tempWaitingList' = r.tempWaitingList

\* What the spillover stage leaves.
SpilloverResult(r) ==
    /\ schedulerData' = r.schedulerData
    /\ consolidatedWaitingList' = r.consolidatedWaitingList

\* What the Day 3 stage leaves, with line 1234:
\* schedulerData.waitingList = consolidatedWaitingList.
LastResortResult(r) ==
    /\ schedulerData' = [r.schedulerData EXCEPT !.waitingList = r.consolidatedWaitingList]
    /\ consolidatedWaitingList' = r.consolidatedWaitingList

\* The candidates a stage hands to its round 1: the list calculateScheduleData
\* builds for the pass, less those the pass itself filters out on the flags.
StageList(st, list, sd) ==
    IF st = "construction"
    THEN SelectSeq(list, LAMBDA p : /\ p.construction >= Hours(sd.minHours)
                                    /\ ~Flag(sd.constructionAssignments, PlayerId(p)))
    ELSE IF st = "research"
    THEN SelectSeq(list, LAMBDA p : /\ p.research >= Hours(sd.minHours)
                                    /\ ~Flag(sd.researchAssignments, PlayerId(p)))
    ELSE IF st = "advisors"
    THEN SelectSeq(list, LAMBDA p : /\ p.soldierTraining >= Hours(sd.minHours)
                                    /\ ~Flag(sd.trainingAssignments, PlayerId(p)))
    ELSE SelectSeq(list, LAMBDA p : /\ p.soldierTraining >= Hours(sd.minHours)
                                    /\ OverflowCandidate(sd, p))

\* The property the evaluator of a stage's round 2 reads.
StageProp(st) ==
    IF st = "construction" THEN "construction"
    ELSE IF st = "research" THEN "research"
    ELSE "soldierTraining"

\* The lists round 2 left.
Rounds == [unscheduled |-> unscheduled, assignedPlayerSlots |-> assignedPlayerSlots]

\* Round 1 of the current stage: assignFirstPass on a fresh slot grid, then the
\* call of performDisplacement, whose loop DisplaceIterate runs.
FirstRound ==
    /\ pc = "round1"
    /\ LET r == assignFirstPass(StageList(stage, filtered, schedulerData), generateTimeSlots, <<>>)
       IN /\ unscheduled' = r.unscheduled
          /\ assignedPlayerSlots' = r.assignedPlayerSlots
    /\ changed' = TRUE
    /\ displacements' = <<>>
    /\ speedupProp' = StageProp(stage)
    /\ pc' = "displace"
    /\ UNCHANGED <<runVars, pureVars>>
    /\ UNCHANGED storageVars

\* assignInitialMinisters for the construction king day, after its round 2.
FinalizeConstruction ==
    /\ pc = "displace"
    /\ stage = "construction"
    /\ ~DisplacementContinues(changed, unscheduled)
    /\ PassResult(FinalizeMinisters(schedulerData.constructionKingDay, "construction",
                                    "constructionAssignments", schedulerData, tempWaitingList,
                                    Rounds))
    /\ stage' = "research"
    /\ pc' = "round1"
    /\ UNCHANGED <<players, inputs, filtered, consolidatedWaitingList, dispVars, pureVars, earlier, manualVars>>
    /\ UNCHANGED storageVars

\* assignInitialMinisters for the research king day, after its round 2.
FinalizeResearch ==
    /\ pc = "displace"
    /\ stage = "research"
    /\ ~DisplacementContinues(changed, unscheduled)
    /\ PassResult(FinalizeMinisters(schedulerData.researchKingDay, "research",
                                    "researchAssignments", schedulerData, tempWaitingList,
                                    Rounds))
    /\ stage' = "advisors"
    /\ pc' = "round1"
    /\ UNCHANGED <<players, inputs, filtered, consolidatedWaitingList, dispVars, pureVars, earlier, manualVars>>
    /\ UNCHANGED storageVars

\* scheduleTrainingDay, stage 1 after its round 2.
FinalizeAdvisorStage ==
    /\ pc = "displace"
    /\ stage = "advisors"
    /\ ~DisplacementContinues(changed, unscheduled)
    /\ schedulerData' = FinalizeAdvisors(schedulerData, Rounds)
    /\ stage' = "overflow"
    /\ pc' = "round1"
    /\ UNCHANGED <<players, inputs, filtered, tempWaitingList, consolidatedWaitingList,
                   dispVars, pureVars, earlier, manualVars>>
    /\ UNCHANGED storageVars

\* scheduleTrainingDay, stage 2 after its round 2.
FinalizeOverflowStage ==
    /\ pc = "displace"
    /\ stage = "overflow"
    /\ ~DisplacementContinues(changed, unscheduled)
    /\ PassResult(FinalizeOverflow(schedulerData, tempWaitingList, Rounds))
    /\ stage' = "none"
    /\ pc' = "consolidate"
    /\ UNCHANGED <<players, inputs, filtered, consolidatedWaitingList, dispVars, pureVars, earlier, manualVars>>
    /\ UNCHANGED storageVars

\* Lines 1090-1099: one waiting entry per key.
Consolidate ==
    /\ pc = "consolidate"
    /\ consolidatedWaitingList' = ConsolidateWaiting(tempWaitingList)
    /\ pc' = "spillover"
    /\ UNCHANGED <<players, inputs, schedulerData, filtered, tempWaitingList, stage,
                   dispVars, pureVars, earlier, manualVars>>
    /\ UNCHANGED storageVars

\* Lines 1101-1189: waiting players onto the open minister slots of days 1, 2, 5.
Spillover ==
    /\ pc = "spillover"
    /\ SpilloverResult(SpilloverStage([schedulerData |-> schedulerData,
                                       consolidatedWaitingList |-> consolidatedWaitingList],
                                      schedulerData.constructionKingDay,
                                      schedulerData.researchKingDay, filtered))
    /\ pc' = "lastResort"
    /\ UNCHANGED <<players, inputs, filtered, tempWaitingList, stage, dispVars, pureVars, earlier, manualVars>>
    /\ UNCHANGED storageVars

\* Lines 1191-1234: Day 3, then schedulerData.waitingList = consolidatedWaitingList.
LastResortStep ==
    /\ pc = "lastResort"
    /\ LastResortResult(LastResortStage([schedulerData |-> schedulerData,
                                         consolidatedWaitingList |-> consolidatedWaitingList],
                                        schedulerData.minHours, filtered))
    /\ earlier' = Append(earlier, [players |-> players, inputs |-> inputs,
                                   assignments |-> schedulerData'.assignments,
                                   waitingList |-> schedulerData'.waitingList])
    /\ pc' = "done"
    /\ UNCHANGED <<players, inputs, filtered, tempWaitingList, stage, dispVars, pureVars,
                   manualVars>>

\* The end of a run, the save it starts left out of account.
LastResort ==
    /\ LastResortStep
    /\ UNCHANGED storageVars

Next ==
    \/ StartRun
    \/ FirstRound
    \/ DisplaceIterate
    \/ FinalizeConstruction
    \/ FinalizeResearch
    \/ FinalizeAdvisorStage
    \/ FinalizeOverflowStage
    \/ Consolidate
    \/ Spillover
    \/ LastResort

Spec == Init /\ [][Next]_vars

----------------------------------------------------------------------------
(* Properties of a full run.                                               *)

Roles == {"ministers", "advisors"}

\* The candidate holds an appointment of the list.
HeldIn(appointments, p) ==
    \E i \in 1..Len(appointments) :
        appointments[i].player = p.player /\ appointments[i].alliance = p.alliance

HasAppointment(sd, p) == \E d \in 1..5 : \E role \in Roles : HeldIn(sd.assignments[d][role], p)

OnWaitingList(waiting, p) ==
    \E i \in 1..Len(waiting) : waiting[i].player = p.player /\ waiting[i].alliance = p.alliance

InFilteredOut(sd, p) == \E i \in 1..Len(sd.filteredOut) : sd.filteredOut[i] = p

\* C1: after calculateScheduleData completes, every candidate of the roster is
\* in some (day, role) appointment list, on the waiting list, or in the
\* filtered-out set.
C1_EveryCandidateAccounted ==
    pc = "done" =>
        \A i \in 1..Len(schedulerData.processedPlayers) :
            LET p == schedulerData.processedPlayers[i]
            IN \/ HasAppointment(schedulerData, p)
               \/ OnWaitingList(schedulerData.waitingList, p)
               \/ InFilteredOut(schedulerData, p)

\* C2: after a full run no two appointments of one (day, role) list start at the
\* same time, whatever the two king days are, equal or not.
C2_NoSharedSlotStart ==
    pc = "done" =>
        \A d \in 1..5 : \A role \in Roles :
            LET appointments == schedulerData.assignments[d][role]
            IN \A i, j \in 1..Len(appointments) :
                   i # j => appointments[i].start # appointments[j].start

\* C3: every appointment of a run pairs a candidate with a slot for which
\* isSlotAvailable(candidate, start, end) is true, whichever stage made it.
C3_AppointmentsAreAvailable ==
    \A d \in 1..5 : \A role \in Roles :
        LET appointments == schedulerData.assignments[d][role]
        IN \A i \in 1..Len(appointments) :
               LET found == FindPlayer(schedulerData.processedPlayers, appointments[i])
               IN /\ found # 0
                  /\ isSlotAvailable(schedulerData.processedPlayers[found],
                                     appointments[i].start, appointments[i].end)

\* The displacement round of the research king day swapped at least once.
\* (The slot grid is the same for both rounds, so a changed pairing is a swap.)
RoundDisplaces(round1, prop) ==
    performDisplacement(round1.unscheduled, round1.assignedPlayerSlots,
                        prop).assignedPlayerSlots # round1.assignedPlayerSlots

ResearchRoundDisplaced ==
    RoundDisplaces(assignFirstPass(SelectSeq(filtered, LAMBDA p :
                                       p.research >= Hours(schedulerData.minHours)),
                                   generateTimeSlots, <<>>), "research")

\* A finished run in which candidates with a restricted availability were
\* placed by the greedy pass, by a displacement swap, by spillover onto the
\* third day of {1, 2, 5} and by the Day 3 last resort.
C3_Witness ==
    /\ pc = "done"
    /\ schedulerData.constructionKingDay # schedulerData.researchKingDay
    /\ ResearchRoundDisplaced
    /\ \A i \in 1..Len(filtered) : filtered[i].availableTimeRanges # <<>>
    /\ schedulerData.assignments[schedulerData.constructionKingDay].ministers # <<>>
    /\ schedulerData.assignments[SpilloverDay(schedulerData.constructionKingDay,
                                              schedulerData.researchKingDay)].ministers # <<>>
    /\ schedulerData.assignments[3].ministers # <<>>

\* C4: the training-day pass (whose only waiting entries are pushed by its
\* last step, the finalization of the overflow stage) leaves every candidate with soldier training >=
\* minHours and no day-4 advisor appointment either with a day-4 minister
\* appointment or with a waiting entry pushed by the pass, whatever
\* construction or research appointments the candidate holds.
C4_OverflowTakesEveryUnplacedAdvisor ==
    [][(stage = "overflow" /\ pc' = "consolidate") =>
          \A i \in 1..Len(filtered) :
              LET p == filtered[i]
              IN (/\ p.soldierTraining >= Hours(schedulerData.minHours)
                  /\ ~HeldIn(schedulerData'.assignments[4].advisors, p))
                 => \/ HeldIn(schedulerData'.assignments[4].ministers, p)
                    \/ OnWaitingList(SubSeq(tempWaitingList', Len(tempWaitingList) + 1,
                                            Len(tempWaitingList')), p)]_vars

\* The record of the roster an appointment or waiting entry names.
Holder(sd, a) == sd.processedPlayers[FindPlayer(sd.processedPlayers, a)]

\* C13: after a full run every minister appointment on the construction king
\* day belongs to a candidate with construction >= minHours and every one on
\* the research king day to a candidate with research >= minHours (either of
\* the two when both king days are the same day): waiting candidates are
\* placed on the spillover day only.
C13_KingDayMinistersQualify ==
    pc = "done" =>
        \A d \in {schedulerData.constructionKingDay, schedulerData.researchKingDay} :
            LET appointments == schedulerData.assignments[d].ministers
                minimum == Hours(schedulerData.minHours)
            IN \A i \in 1..Len(appointments) :
                   LET p == Holder(schedulerData, appointments[i])
                   IN \/ d = schedulerData.constructionKingDay /\ p.construction >= minimum
                      \/ d = schedulerData.researchKingDay /\ p.research >= minimum

\* C14: every placement of a waiting candidate on the spillover day leaves
\* both the construction flag and the research flag of the candidate true.
C14_SpilloverSetsBothFlags ==
    pc = "lastResort" =>
        LET appointments ==
                schedulerData.assignments[SpilloverDay(schedulerData.constructionKingDay,
                                                       schedulerData.researchKingDay)].ministers
        IN \A i \in 1..Len(appointments) :
               /\ Flag(schedulerData.constructionAssignments, PlayerId(appointments[i]))
               /\ Flag(schedulerData.researchAssignments, PlayerId(appointments[i]))

\* The waiting candidates that hold both flags.
HoldsBothFlags(sd, w) ==
    /\ Flag(sd.constructionAssignments, PlayerId(w))
    /\ Flag(sd.researchAssignments, PlayerId(w))

\* C15: the spillover stage gives no minister appointment on the spillover
\* day to a waiting candidate whose construction and research flags are both
\* already true.
C15_NoSpilloverForFullyFlagged ==
    [][(pc = "spillover" /\ pc' = "lastResort") =>
          \A i \in 1..Len(consolidatedWaitingList) :
              HoldsBothFlags(schedulerData, consolidatedWaitingList[i])
                  => ~HeldIn(schedulerData'.assignments[
                                 SpilloverDay(schedulerData.constructionKingDay,
                                              schedulerData.researchKingDay)].ministers,
                             consolidatedWaitingList[i])]_vars

\* The spillover stage has run with a waiting candidate that held both flags:
\* the slot it is available for went to a waiting candidate that the stage
\* tried after it.
C15_Witness ==
    /\ pc = "lastResort"
    /\ schedulerData.constructionKingDay # schedulerData.researchKingDay
    /\ \E i \in 1..Len(consolidatedWaitingList) :
           LET w == consolidatedWaitingList[i]
               appointments ==
                   schedulerData.assignments[SpilloverDay(schedulerData.constructionKingDay,
                                                          schedulerData.researchKingDay)].ministers
           IN /\ HoldsBothFlags(schedulerData, w)
              /\ ~HeldIn(appointments, w)
              /\ \E k \in 1..Len(appointments) :
                     /\ FirstOpenSlot(Holder(schedulerData, w), generateTimeSlots, {}) # 0
                     /\ generateTimeSlots[FirstOpenSlot(Holder(schedulerData, w),
                                                        generateTimeSlots, {})].start
                            = appointments[k].start
                     /\ getAllSpeedupsSum(Holder(schedulerData, w))
                            > getAllSpeedupsSum(Holder(schedulerData, appointments[k]))

\* The slots of the grid a candidate is available for.
FittingSlots(p) ==
    {k \in 1..Len(generateTimeSlots) :
        isSlotAvailable(p, generateTimeSlots[k].start, generateTimeSlots[k].end)}

\* The candidates of the research king day's pass.
ResearchEligible == SelectSeq(filtered, LAMBDA p : p.research >= Hours(schedulerData.minHours))

\* Candidates i and j of the research pass can each fill one slot only, the
\* same one, which no other candidate of the pass can fill, and i has the
\* higher research score.
ContendForOneSlot(list, i, j) ==
    /\ i # j
    /\ Cardinality(FittingSlots(list[i])) = 1
    /\ FittingSlots(list[i]) = FittingSlots(list[j])
    /\ list[i].research > list[j].research
    /\ \A k \in 1..Len(list) : k \notin {i, j} => FittingSlots(list[k]) \cap FittingSlots(list[i]) = {}

\* Candidate i holds the contended slot on the research king day and candidate
\* j is among the waiting entries pushed since the list was `before`.
HigherHoldsLowerWaits(list, i, j, sd, before, after) ==
    /\ \E a \in 1..Len(sd.assignments[sd.researchKingDay].ministers) :
           LET appointment == sd.assignments[sd.researchKingDay].ministers[a]
           IN /\ PlayerId(appointment) = PlayerId(list[i])
              /\ \A k \in FittingSlots(list[i]) : generateTimeSlots[k].start = appointment.start
              /\ appointment.speedups = <<MathRound(list[i].research)>>
    /\ \E w \in (Len(before) + 1)..Len(after) : PlayerId(after[w]) = PlayerId(list[j])

CoreSlots(range) ==
    {k \in 1..Len(generateTimeSlots) :
        /\ timeToMinutes(range.start) <= timeToMinutes(generateTimeSlots[k].start)
        /\ timeToMinutes(generateTimeSlots[k].start) + 10 <= timeToMinutes(range.end)}

\* The appointments of a schedule, as <<day, role, index>>.
AllAppointments(sd) ==
    {t \in (1..5) \X Roles \X (1..MaxPlayers + 1) : t[3] <= Len(sd.assignments[t[1]][t[2]])}

\* C17: a roster of one candidate with construction >= minHours, research and
\* training below minHours and a single availability interval containing the
\* core of at least one slot ends the run with exactly one appointment: on the
\* construction king day, at a grid slot whose start lies in the interval.
C17_LoneConstructionCandidatePlaced ==
    (/\ pc = "done"
     /\ Len(schedulerData.processedPlayers) = 1
     /\ schedulerData.processedPlayers[1].construction >= Hours(schedulerData.minHours)
     /\ schedulerData.processedPlayers[1].research < Hours(schedulerData.minHours)
     /\ schedulerData.processedPlayers[1].soldierTraining < Hours(schedulerData.minHours)
     /\ Len(schedulerData.processedPlayers[1].availableTimeRanges) = 1
     /\ CoreSlots(schedulerData.processedPlayers[1].availableTimeRanges[1]) # {})
        => LET range == schedulerData.processedPlayers[1].availableTimeRanges[1]
               ministers == schedulerData.assignments[schedulerData.constructionKingDay].ministers
           IN /\ Cardinality(AllAppointments(schedulerData)) = 1
              /\ Len(ministers) = 1
              /\ \E k \in 1..Len(generateTimeSlots) : generateTimeSlots[k].start = ministers[1].start
              /\ timeToMinutes(range.start) <= timeToMinutes(ministers[1].start)
              /\ timeToMinutes(ministers[1].start) < timeToMinutes(range.end)

\* The value summary the role of an appointment calls for.
ValueSummary(day, role, p) ==
    IF role = "advisors" THEN MathRound(p.soldierTraining)
    ELSE IF day = 4
    THEN <<MathRound(p.construction), MathRound(p.research), MathRound(p.soldierTraining)>>
    ELSE <<MathRound(p.construction), MathRound(p.research)>>

\* C20: every appointment carries the value summary of its role: a minister
\* appointment on a day other than 4 the two-part composite of the rounded
\* construction and research scores, a day-4 minister appointment the
\* three-part composite with the training score, an advisor appointment the
\* single rounded training score.
C20_AppointmentsCarryRoleSummary ==
    pc = "done" =>
        \A t \in AllAppointments(schedulerData) :
            LET appointment == schedulerData.assignments[t[1]][t[2]][t[3]]
            IN appointment.speedups = ValueSummary(t[1], t[2], Holder(schedulerData, appointment))

----------------------------------------------------------------------------
(* Runs one after another on the same global schedulerData: each new roster *)
(* (a new CSV handed to processAndSchedule) finds what the run before left. *)

\* Rosters handed to the successive runs. The same names come with different
\* scores and availabilities from one roster to the other.
RerunRosters ==
    {<<Player(1, 0, <<>>, 0, Hours(30), Hours(20), <<Range(<<0, 0>>, <<0, 30>>)>>),
       Player(2, 0, <<>>, 0, Hours(20), Hours(30), <<Range(<<0, 0>>, <<0, 30>>)>>)>>,
     <<Player(1, 0, <<>>, 0, Hours(20), Hours(30), <<Range(<<0, 0>>, <<0, 30>>)>>),
       Player(2, 0, <<>>, 0, Hours(30), Hours(20), <<Range(<<0, 0>>, <<0, 30>>)>>)>>,
     <<Player(1, 0, <<>>, Hours(25), 0, Hours(25), <<Range(<<0, 0>>, <<0, 30>>)>>),
       Player(2, 0, <<>>, Hours(30), 0, 0, <<>>)>>,
     <<Player(1, Hours(15), <<>>, Hours(30), Hours(30), Hours(30), <<>>)>>,
     <<Player(1, 0, <<>>, 0, Hours(30), 0,
              <<Range(<<0, 0>>, <<0, 5>>), Range(<<1, 0>>, <<1, 40>>)>>)>>}

RerunInputs ==
    {[minHoursInput |-> 20, constructionKingDay |-> 1, researchKingDay |-> 2],
     [minHoursInput |-> 20, constructionKingDay |-> 5, researchKingDay |-> 5]}

InitRerun ==
    /\ pc = "ready"
    /\ players \in RerunRosters
    /\ inputs \in RerunInputs
    /\ schedulerData = InitialSchedulerData
    /\ filtered = <<>>
    /\ tempWaitingList = <<>>
    /\ consolidatedWaitingList = <<>>
    /\ stage = "none"
    /\ earlier = <<>>
    /\ newPlayer = <<>>
    /\ assignmentsMade = 0
    /\ operations = 0
    /\ outcome = "none"
    /\ DispIdle
    /\ PureIdle
    /\ StorageIdle

\* processAndSchedule is called again, with a new roster and new inputs; the
\* global state is as the run before left it.
Rerun ==
    /\ pc = "done"
    /\ Len(earlier) < MaxRuns
    /\ players' \in RerunRosters
    /\ inputs' \in RerunInputs
    /\ pc' = "ready"
    /\ UNCHANGED <<schedulerData, filtered, tempWaitingList, consolidatedWaitingList, stage,
                   earlier, manualVars, dispVars, pureVars>>
    /\ UNCHANGED storageVars

NextRerun ==
    \/ StartRun
    \/ FirstRound
    \/ DisplaceIterate
    \/ FinalizeConstruction
    \/ FinalizeResearch
    \/ FinalizeAdvisorStage
    \/ FinalizeOverflowStage
    \/ Consolidate
    \/ Spillover
    \/ LastResort
    \/ Rerun

SpecRerun == InitRerun /\ [][NextRerun]_vars

\* C12: two runs on equal rosters with equal minHours and king days produce
\* equal appointment lists for every (day, role) and equal waiting lists,
\* whatever the global scheduler state held when each of them started.
C12_EqualInputsEqualSchedules ==
    \A i, j \in 1..Len(earlier) :
        (earlier[i].players = earlier[j].players /\ earlier[i].inputs = earlier[j].inputs)
            => /\ earlier[i].assignments = earlier[j].assignments
               /\ earlier[i].waitingList = earlier[j].waitingList

\* Three runs are complete: the first and the third had the same roster and
\* inputs, the second another roster, and appointments were made.
C12_Witness ==
    /\ pc = "done"
    /\ Len(earlier) >= 3
    /\ earlier[1].players = earlier[3].players
    /\ earlier[1].inputs = earlier[3].inputs
    /\ earlier[2].players # earlier[1].players
    /\ earlier[3].assignments # EmptyAssignments
    /\ earlier[2].assignments # earlier[3].assignments


----------------------------------------------------------------------------
(* Management actions on the schedule a run has left: submitAddPlayer,     *)
(* performAssignment (assign from a list, reassign an appointment),        *)
(* removeAssignment and submitRemoveUser. The buttons that start them are   *)
(* those renderUI drew for the appointments, the waiting list and the       *)
(* filtered-out list. A submitAddPlayer that ends in an exception skips     *)
(* renderUI, but it has changed none of the three rendered lists, so the    *)
(* buttons on screen are still those of the current state.                  *)

\* A key as the in-place sort of finishManagementAction compares it.
SortByStart(appointments) ==
    StableSortByKeys(appointments,
                     [i \in 1..Len(appointments) |-> timeToMinutes(appointments[i].start)])

\* finishManagementAction: every list of every day sorted by start.
finishManagementAction(sd) ==
    [sd EXCEPT !.assignments =
        [d \in 1..5 |-> [ministers |-> SortByStart(sd.assignments[d].ministers),
                         advisors |-> SortByStart(sd.assignments[d].advisors)]]]

\* list.find(p => `${p.player}-${p.alliance}` === id): the index, 0 for undefined.
FindById(list, id) ==
    LET matches == {i \in 1..Len(list) : PlayerId(list[i]) = id}
    IN IF matches = {} THEN 0 ELSE SetMin(matches)

\* delete map[key]
DeleteFlag(map, key) == [k \in (DOMAIN map) \ {key} |-> map[k]]

\* map[id] = true for the flag maps named in names.
RaiseFlags(sd, id, names) ==
    [sd EXCEPT
        !.constructionAssignments =
            IF "constructionAssignments" \in names THEN SetFlag(@, id, TRUE) ELSE @,
        !.researchAssignments =
            IF "researchAssignments" \in names THEN SetFlag(@, id, TRUE) ELSE @,
        !.trainingAssignments =
            IF "trainingAssignments" \in names THEN SetFlag(@, id, TRUE) ELSE @]

\* The range the form's start and end fields give when left at their defaults.
WholeDay == <<Range(<<0, 0>>, <<23, 59>>)>>

\* The forms submitted in the add-player dialog: the candidate is new to the
\* roster; every score field is filled in, so all three categories are listed
\* as uses of the general pool.
AddedPlayers ==
    {[Player(4, 0, <<"soldier training", "construction", "research">>, f.t, f.c, f.r, f.ranges)
         EXCEPT !.alliance = <<"x">>] :
        f \in {[t |-> Hours(30), c |-> 0, r |-> 0, ranges |-> WholeDay],
               [t |-> Hours(30), c |-> Hours(30), r |-> Hours(30), ranges |-> WholeDay],
               [t |-> Hours(5), c |-> Hours(5), r |-> Hours(5), ranges |-> WholeDay],
               [t |-> 0, c |-> Hours(30), r |-> 0,
                ranges |-> <<Range(<<0, 0>>, <<0, 30>>)>>]}}

\* The slots a user picks among those the assignment dialog offers.
ManualSlots == {1, 2}

\* submitAddPlayer up to the filter check (lines 1484-1552).
SubmitAddPlayer ==
    /\ pc = "done"
    /\ operations < MaxOperations
    /\ \E form \in AddedPlayers :
           LET p == allocateGeneralSpeedups(form)
               playerId == PlayerId(p)
               minHours == Hours(schedulerData.minHours)
               isMinisterQualified == p.construction + p.research >= minHours
               isAdvisorQualified == p.soldierTraining >= minHours
               pushed ==
                   [schedulerData EXCEPT
                       !.rawPlayers = Append(@, p),
                       !.processedPlayers = Append(@, p),
                       !.constructionAssignments =
                           IF isMinisterQualified THEN SetFlag(@, playerId, FALSE) ELSE @,
                       !.researchAssignments =
                           IF isMinisterQualified THEN SetFlag(@, playerId, FALSE) ELSE @,
                       !.trainingAssignments =
                           IF isAdvisorQualified THEN SetFlag(@, playerId, FALSE) ELSE @]
           IN /\ newPlayer' = p
              /\ IF ~isMinisterQualified /\ ~isAdvisorQualified
                 THEN /\ schedulerData' =
                            finishManagementAction([pushed EXCEPT !.filteredOut = Append(@, p)])
                      /\ pc' = "done"
                      /\ outcome' = "finished"
                 ELSE /\ schedulerData' = pushed
                      /\ pc' = "addConstruction"
                      /\ outcome' = "running"
    /\ assignmentsMade' = 0
    /\ operations' = operations + 1
    /\ UNCHANGED <<players, inputs, filtered, tempWaitingList, consolidatedWaitingList, stage,
                   earlier, dispVars, pureVars>>
    /\ UNCHANGED storageVars

\* Lines 1558-1586: the construction attempt on the construction king day,
\* then the test of the fallback. constructDay and slots are consts of the
\* block of the attempt; the fallback block names them outside that block and
\* no other binding of these names exists, so entering it raises a
\* ReferenceError: the handler ends there, before finishManagementAction.
AddConstruction ==
    /\ pc = "addConstruction"
    /\ LET playerId == PlayerId(newPlayer)
           constructDay == inputs.constructionKingDay
           attempt == /\ newPlayer.construction >= Hours(schedulerData.minHours)
                      /\ ~Flag(schedulerData.constructionAssignments, playerId)
           k == IF attempt
                THEN FirstOpenSlot(newPlayer, generateTimeSlots,
                                   TakenStarts(schedulerData.assignments[constructDay].ministers))
                ELSE 0
       IN IF k # 0
          THEN /\ schedulerData' =
                     [schedulerData EXCEPT
                         !.assignments[constructDay].ministers =
                             Append(@, Appointment(generateTimeSlots[k], newPlayer.alliance,
                                                   newPlayer.player,
                                                   <<MathRound(newPlayer.construction)>>)),
                         !.constructionAssignments = SetFlag(@, playerId, TRUE)]
               /\ assignmentsMade' = assignmentsMade + 1
               /\ pc' = "addResearch"
               /\ UNCHANGED outcome
          ELSE IF Flag(schedulerData.constructionAssignments, playerId)
          THEN /\ pc' = "addResearch"
               /\ UNCHANGED <<schedulerData, assignmentsMade, outcome>>
          ELSE /\ pc' = "done"
               /\ outcome' = "threw"
               /\ UNCHANGED <<schedulerData, assignmentsMade>>
    /\ UNCHANGED <<players, inputs, filtered, tempWaitingList, consolidatedWaitingList, stage,
                   earlier, newPlayer, operations, dispVars, pureVars>>
    /\ UNCHANGED storageVars

\* Lines 1613-1666: the research attempt on the research king day, then on the
\* other days of 1, 2, 5 in that order.
AddResearch ==
    /\ pc = "addResearch"
    /\ LET playerId == PlayerId(newPlayer)
           researchDay == inputs.researchKingDay
           days == <<researchDay>> \o SelectSeq(<<1, 2, 5>>, LAMBDA d : d # researchDay)
           open(d) == FirstOpenSlot(newPlayer, generateTimeSlots,
                                    TakenStarts(schedulerData.assignments[d].ministers))
           found == {i \in 1..Len(days) : open(days[i]) # 0}
       IN IF /\ newPlayer.research >= Hours(schedulerData.minHours)
             /\ ~Flag(schedulerData.researchAssignments, playerId)
             /\ found # {}
          THEN /\ schedulerData' =
                     [schedulerData EXCEPT
                         !.assignments[days[SetMin(found)]].ministers =
                             Append(@, Appointment(generateTimeSlots[open(days[SetMin(found)])],
                                                   newPlayer.alliance, newPlayer.player,
                                                   <<MathRound(newPlayer.research)>>)),
                         !.researchAssignments = SetFlag(@, playerId, TRUE)]
               /\ assignmentsMade' = assignmentsMade + 1
          ELSE UNCHANGED <<schedulerData, assignmentsMade>>
    /\ pc' = "addAdvisor"
    /\ UNCHANGED <<players, inputs, filtered, tempWaitingList, consolidatedWaitingList, stage,
                   earlier, newPlayer, operations, outcome, dispVars, pureVars>>
    /\ UNCHANGED storageVars

\* Lines 1668-1724: the advisor attempt on day 4, then the overflow to a day-4
\* minister slot.
AddAdvisor ==
    /\ pc = "addAdvisor"
    /\ LET playerId == PlayerId(newPlayer)
           attempt == /\ newPlayer.soldierTraining >= Hours(schedulerData.minHours)
                      /\ ~Flag(schedulerData.trainingAssignments, playerId)
           advisorSlot == FirstOpenSlot(newPlayer, generateTimeSlots,
                                        TakenStarts(schedulerData.assignments[4].advisors))
           ministerSlot == FirstOpenSlot(newPlayer, generateTimeSlots,
                                         TakenStarts(schedulerData.assignments[4].ministers))
       IN IF attempt /\ advisorSlot # 0
          THEN /\ schedulerData' =
                     [schedulerData EXCEPT
                         !.assignments[4].advisors =
                             Append(@, Appointment(generateTimeSlots[advisorSlot],
                                                   newPlayer.alliance, newPlayer.player,
                                                   MathRound(newPlayer.soldierTraining))),
                         !.trainingAssignments = SetFlag(@, playerId, TRUE)]
               /\ assignmentsMade' = assignmentsMade + 1
          ELSE IF /\ attempt
                  /\ ~Flag(schedulerData.researchAssignments, playerId)
                  /\ ministerSlot # 0
          THEN /\ schedulerData' =
                     [schedulerData EXCEPT
                         !.assignments[4].ministers =
                             Append(@, Appointment(generateTimeSlots[ministerSlot],
                                                   newPlayer.alliance, newPlayer.player,
                                                   <<MathRound(newPlayer.construction),
                                                     MathRound(newPlayer.research)>>)),
                         !.researchAssignments = SetFlag(@, playerId, TRUE)]
               /\ assignmentsMade' = assignmentsMade + 1
          ELSE UNCHANGED <<schedulerData, assignmentsMade>>
    /\ pc' = "addFinalize"
    /\ UNCHANGED <<players, inputs, filtered, tempWaitingList, consolidatedWaitingList, stage,
                   earlier, newPlayer, operations, outcome, dispVars, pureVars>>
    /\ UNCHANGED storageVars

\* Lines 1726-1753: the waiting entry of a candidate that got no appointment,
\* and finishManagementAction.
AddFinalize ==
    /\ pc = "addFinalize"
    /\ schedulerData' =
           finishManagementAction(
               IF assignmentsMade = 0
               THEN [schedulerData EXCEPT !.waitingList = Append(@, WaitingEntry(newPlayer))]
               ELSE schedulerData)
    /\ pc' = "done"
    /\ outcome' = "finished"
    /\ UNCHANGED <<players, inputs, filtered, tempWaitingList, consolidatedWaitingList, stage,
                   earlier, newPlayer, assignmentsMade, operations, dispVars, pureVars>>
    /\ UNCHANGED storageVars

\* currentReassignTarget as openAssignmentModal sets it: from an Assign button
\* of the waiting list or of the filtered-out list, or with the existing slot
\* from the Reassign button of an appointment.
AssignTargets(sd) ==
    {[alliance |-> sd.waitingList[i].alliance, player |-> sd.waitingList[i].player,
      existingSlotStart |-> <<>>, day |-> 0, role |-> ""] : i \in 1..Len(sd.waitingList)}
    \cup
    {[alliance |-> sd.filteredOut[i].alliance, player |-> sd.filteredOut[i].player,
      existingSlotStart |-> <<>>, day |-> 0, role |-> ""] : i \in 1..Len(sd.filteredOut)}
    \cup
    UNION {UNION {{[alliance |-> sd.assignments[d][r][i].alliance,
                    player |-> sd.assignments[d][r][i].player,
                    existingSlotStart |-> sd.assignments[d][r][i].start,
                    day |-> d, role |-> r] : i \in 1..Len(sd.assignments[d][r])}
                  : r \in Roles} : d \in 1..5}

\* The qualification test of updateAssignmentSlots.
Qualified(playerObj, day, role, minHours) ==
    IF role = "ministers"
    THEN \/ playerObj.construction + playerObj.research >= Hours(minHours)
         \/ day = 4 /\ playerObj.soldierTraining >= Hours(minHours)
    ELSE playerObj.soldierTraining >= Hours(minHours)

\* The flag maps performAssignment sets for an appointment on this day.
AssignmentPurposes(sd, targetId, day, role) ==
    IF day = 3 /\ role = "ministers"
    THEN {"constructionAssignments", "researchAssignments", "trainingAssignments"}
    ELSE IF day = sd.constructionKingDay /\ role = "ministers"
    THEN {"constructionAssignments"}
    ELSE IF (day = sd.researchKingDay \/ day = 4) /\ role = "ministers"
    THEN {"researchAssignments"}
    ELSE IF day = 4 /\ role = "advisors"
    THEN {"trainingAssignments"}
    ELSE IF ~Flag(sd.constructionAssignments, targetId)
    THEN {"constructionAssignments"}
    ELSE {"researchAssignments"}

\* performAssignment(day, role, start, end) up to its call of
\* finishManagementAction.
performAssignment(sd, target, day, role, slot) ==
    LET targetId == PlayerId(target)
        playerObj == sd.processedPlayers[FindById(sd.processedPlayers, targetId)]
        removed ==
            IF target.existingSlotStart # <<>>
            THEN [sd EXCEPT !.assignments[target.day][target.role] =
                     SelectSeq(@, LAMBDA a : ~(/\ a.start = target.existingSlotStart
                                                /\ a.alliance = target.alliance
                                                /\ a.player = target.player))]
            ELSE [sd EXCEPT !.waitingList = SelectSeq(@, LAMBDA p : PlayerId(p) # targetId),
                            !.filteredOut = SelectSeq(@, LAMBDA p : PlayerId(p) # targetId)]
        speedups == IF role = "ministers"
                    THEN <<MathRound(playerObj.construction), MathRound(playerObj.research)>>
                    ELSE MathRound(playerObj.soldierTraining)
    IN RaiseFlags([removed EXCEPT !.assignments[day][role] =
                      Append(@, Appointment(slot, target.alliance, target.player, speedups))],
                  targetId, AssignmentPurposes(sd, targetId, day, role))

\* A click on a slot the assignment dialog offers (updateAssignmentSlots): the
\* slot is not taken in the chosen list, the target is qualified and available.
PerformAssignmentStep ==
    /\ pc = "done"
    /\ operations < MaxOperations
    /\ \E target \in AssignTargets(schedulerData), day \in 1..5, role \in Roles, k \in ManualSlots :
           LET slot == generateTimeSlots[k]
               found == FindById(schedulerData.processedPlayers, PlayerId(target))
           IN /\ found # 0
              /\ Qualified(schedulerData.processedPlayers[found], day, role,
                           schedulerData.minHours)
              /\ slot.start \notin TakenStarts(schedulerData.assignments[day][role])
              /\ isSlotAvailable(schedulerData.processedPlayers[found], slot.start, slot.end)
              /\ schedulerData' =
                     finishManagementAction(performAssignment(schedulerData, target, day, role,
                                                              slot))
    /\ operations' = operations + 1
    /\ outcome' = "none"
    /\ UNCHANGED <<pc, players, inputs, filtered, tempWaitingList, consolidatedWaitingList, stage,
                   earlier, newPlayer, assignmentsMade, dispVars, pureVars>>

\* performAssignment, the save it starts left out of account.
PerformAssignment ==
    /\ PerformAssignmentStep
    /\ UNCHANGED storageVars

\* removeAssignment(day, role, start, alliance, player) up to its call of
\* finishManagementAction: the flags are recomputed from the appointments that
\* remain, and a candidate left with none is pushed onto the waiting list.
removeAssignment(sd, day, role, start, alliance, player) ==
    LET who == [alliance |-> alliance, player |-> player]
        id == PlayerId(who)
        remaining == [sd.assignments EXCEPT ![day][role] =
                         SelectSeq(@, LAMBDA a : ~(/\ a.start = start
                                                    /\ a.alliance = alliance
                                                    /\ a.player = player))]
        hasAssig(d, r) == HeldIn(remaining[d][r], who)
        hasDay3 == hasAssig(3, "ministers")
        baseConstr == hasAssig(sd.constructionKingDay, "ministers") \/ hasDay3
        baseRes == \/ hasAssig(sd.researchKingDay, "ministers")
                   \/ hasAssig(4, "ministers")
                   \/ hasDay3
        isTrain == hasAssig(4, "advisors") \/ hasDay3
        otherDays == {d \in {1, 2, 5} : /\ d # sd.constructionKingDay
                                         /\ d # sd.researchKingDay
                                         /\ hasAssig(d, "ministers")}
        isConstr == baseConstr \/ otherDays # {}
        isRes == \/ baseRes
                 \/ baseConstr /\ otherDays # {}
                 \/ Cardinality(otherDays) >= 2
        p == FindPlayer(sd.processedPlayers, who)
    IN [sd EXCEPT
           !.assignments = remaining,
           !.constructionAssignments = SetFlag(@, id, isConstr),
           !.researchAssignments = SetFlag(@, id, isRes),
           !.trainingAssignments = SetFlag(@, id, isTrain),
           !.waitingList = IF ~(isConstr \/ isRes \/ isTrain) /\ p # 0
                           THEN Append(@, WaitingEntry(sd.processedPlayers[p]))
                           ELSE @]

\* A click on the Remove button of an appointment.
RemoveAssignmentStep ==
    /\ pc = "done"
    /\ operations < MaxOperations
    /\ \E day \in 1..5, role \in Roles :
           \E i \in 1..Len(schedulerData.assignments[day][role]) :
               LET app == schedulerData.assignments[day][role][i]
               IN schedulerData' =
                      finishManagementAction(removeAssignment(schedulerData, day, role, app.start,
                                                              app.alliance, app.player))
    /\ operations' = operations + 1
    /\ outcome' = "none"
    /\ UNCHANGED <<pc, players, inputs, filtered, tempWaitingList, consolidatedWaitingList, stage,
                   earlier, newPlayer, assignmentsMade, dispVars, pureVars>>

\* removeAssignment, the save it starts left out of account.
RemoveAssignment ==
    /\ RemoveAssignmentStep
    /\ UNCHANGED storageVars

\* submitRemoveUser up to its call of finishManagementAction.
submitRemoveUser(sd, idToRemove) ==
    [sd EXCEPT
        !.rawPlayers = SelectSeq(@, LAMBDA p : PlayerId(p) # idToRemove),
        !.processedPlayers = SelectSeq(@, LAMBDA p : PlayerId(p) # idToRemove),
        !.filteredOut = SelectSeq(@, LAMBDA p : PlayerId(p) # idToRemove),
        !.waitingList = SelectSeq(@, LAMBDA p : PlayerId(p) # idToRemove),
        !.assignments =
            [d \in 1..5 |->
                [ministers |-> SelectSeq(sd.assignments[d].ministers,
                                         LAMBDA a : PlayerId(a) # idToRemove),
                 advisors |-> SelectSeq(sd.assignments[d].advisors,
                                        LAMBDA a : PlayerId(a) # idToRemove)]],
        !.constructionAssignments = DeleteFlag(@, idToRemove),
        !.researchAssignments = DeleteFlag(@, idToRemove),
        !.trainingAssignments = DeleteFlag(@, idToRemove)]

\* The option selected in the remove-user dialog is a candidate of
\* processedPlayers (openRemoveUserModal).
SubmitRemoveUserStep ==
    /\ pc = "done"
    /\ operations < MaxOperations
    /\ \E i \in 1..Len(schedulerData.processedPlayers) :
           schedulerData' =
               finishManagementAction(
                   submitRemoveUser(schedulerData, PlayerId(schedulerData.processedPlayers[i])))
    /\ operations' = operations + 1
    /\ outcome' = "none"
    /\ UNCHANGED <<pc, players, inputs, filtered, tempWaitingList, consolidatedWaitingList, stage,
                   earlier, newPlayer, assignmentsMade, dispVars, pureVars>>

\* submitRemoveUser, the save it starts left out of account.
SubmitRemoveUser ==
    /\ SubmitRemoveUserStep
    /\ UNCHANGED storageVars

\* The rosters of the runs the management actions follow: three candidates
\* that can each fill the 00:00 slot only; a candidate free all day with
\* one below every threshold; and member "a-b" of alliance "c" with member
\* "a" of alliance "b-c".
ManualRosters ==
    {<<Player(1, 0, <<>>, 0, Hours(30), Hours(20), <<Range(<<0, 0>>, <<0, 30>>)>>),
       Player(2, 0, <<>>, 0, Hours(20), Hours(30), <<Range(<<0, 0>>, <<0, 30>>)>>),
       Player(3, 0, <<>>, Hours(25), Hours(25), Hours(25), <<Range(<<0, 0>>, <<0, 30>>)>>)>>,
     <<Player(1, 0, <<>>, Hours(30), Hours(30), Hours(30), <<>>),
       Player(2, 0, <<>>, Hours(5), Hours(5), Hours(5), <<>>)>>,
     <<[Player(1, 0, <<>>, Hours(30), 0, 0, <<>>)
           EXCEPT !.player = <<"a", "-", "b">>, !.alliance = <<"c">>],
       [Player(2, 0, <<>>, 0, Hours(30), 0, <<>>)
           EXCEPT !.player = <<"a">>, !.alliance = <<"b", "-", "c">>]>>}

InitManual ==
    /\ pc = "ready"
    /\ players \in ManualRosters
    /\ inputs = [minHoursInput |-> 20, constructionKingDay |-> 1, researchKingDay |-> 2]
    /\ schedulerData = InitialSchedulerData
    /\ filtered = <<>>
    /\ tempWaitingList = <<>>
    /\ consolidatedWaitingList = <<>>
    /\ stage = "none"
    /\ earlier = <<>>
    /\ newPlayer = <<>>
    /\ assignmentsMade = 0
    /\ operations = 0
    /\ outcome = "none"
    /\ DispIdle
    /\ PureIdle
    /\ StorageIdle

NextManual ==
    \/ StartRun
    \/ FirstRound
    \/ DisplaceIterate
    \/ FinalizeConstruction
    \/ FinalizeResearch
    \/ FinalizeAdvisorStage
    \/ FinalizeOverflowStage
    \/ Consolidate
    \/ Spillover
    \/ LastResort
    \/ SubmitAddPlayer
    \/ AddConstruction
    \/ AddResearch
    \/ AddAdvisor
    \/ AddFinalize
    \/ PerformAssignment
    \/ RemoveAssignment
    \/ SubmitRemoveUser

SpecManual == InitManual /\ [][NextManual]_vars

\* C18: after a run and any management actions the waiting list holds at most
\* one entry per candidate identity (alliance, name).
C18_OneWaitingEntryPerIdentity ==
    \A i, j \in 1..Len(schedulerData.waitingList) :
        (/\ schedulerData.waitingList[i].alliance = schedulerData.waitingList[j].alliance
         /\ schedulerData.waitingList[i].player = schedulerData.waitingList[j].player)
            => i = j

\* C19: submitAddPlayer never ends in an exception, and when it has ended the
\* added candidate holds an appointment, or is on the waiting list, or is in
\* the filtered-out set.
C19_AddPlayerRunsToCompletion ==
    /\ outcome # "threw"
    /\ outcome = "finished"
           => \/ HasAppointment(schedulerData, newPlayer)
              \/ OnWaitingList(schedulerData.waitingList, newPlayer)
              \/ InFilteredOut(schedulerData, newPlayer)

----------------------------------------------------------------------------
(* Reading clock times (src/parse.js and the variant in                    *)
(* src/unnamed/part_001). A time text is modelled by what the patterns      *)
(* read of it: the leading one or two hour digits, the separator that       *)
(* follows them ("" when the text is the hour alone, "military" when two    *)
(* more digits follow at once), the two minute digits after the separator,  *)
(* and the suffix "am", "pm" or "" at the end of the text.                  *)

TimeText(h, sep, m, suffix) == [hour |-> h, sep |-> sep, minute |-> m, suffix |-> suffix]

\* The null result.
NoTime == <<>>

\* Math.max(lo, Math.min(hi, x)).
Clamp(lo, hi, x) == IF x < lo THEN lo ELSE IF x > hi THEN hi ELSE x

\* match[3] of /(\d{1,2})(?::(\d{2}))?(?:am|pm|AM|PM)?/i: the pattern has two
\* capturing groups only (the suffix group is (?: ... )), so match[3] is
\* undefined for every text and ampm is null.
MatchedSuffix(text) == ""

\* The am/pm adjustment and the clamping shared by both variants.
AdjustAndClamp(h, m, ampm) ==
    LET h1 == IF ampm = "pm" /\ h # 12 THEN h + 12 ELSE h
        h2 == IF ampm = "am" /\ h1 = 12 THEN 0 ELSE h1
        h3 == IF h2 = 24 THEN 0 ELSE h2
    IN <<Clamp(0, 23, h3), Clamp(0, 59, m)>>

\* extractTimeWithAmPm of src/parse.js: the pattern is not anchored, it reads
\* the hour digits and the minutes only when a colon follows them.
extractTimeWithAmPm(text) ==
    LET h == text.hour
        m == IF text.sep = ":" THEN text.minute ELSE 0
    IN AdjustAndClamp(h, m, MatchedSuffix(text))

\* extractTimeWithAmPm of src/unnamed/part_001: anchored patterns for the five
\* formats, each rejecting an hour above 24, a minute above 59 and 24 with
\* minutes; the suffix is read by /(am|pm)$/.
extractTimeWithAmPm_part001(text) ==
    LET h == text.hour
        m == IF text.sep = "" THEN 0 ELSE text.minute
    IN IF h > 24 \/ m > 59 \/ (h = 24 /\ m # 0) THEN NoTime
       ELSE AdjustAndClamp(h, m, text.suffix)

TimeHours == {0, 1, 9, 11, 12, 13, 23, 24, 25, 99}

TimeMinutes == {0, 30, 59, 60, 99}

TimeSeparators == {":", ".", "h", "military"}

TimeSuffixes == {"", "am", "pm"}

TimeTexts ==
    {TimeText(h, "", 0, x) : h \in TimeHours, x \in TimeSuffixes}
        \cup {TimeText(f[1], f[2], f[3], f[4]) :
                 f \in TimeHours \X TimeSeparators \X TimeMinutes \X TimeSuffixes}

InitTime ==
    /\ pc = "call"
    /\ call \in TimeTexts
    /\ ret = <<>>
    /\ RunIdle
    /\ DispIdle
    /\ StorageIdle

ApplyExtractTime ==
    /\ pc = "call"
    /\ ret' = extractTimeWithAmPm(call)
    /\ pc' = "normalized"
    /\ UNCHANGED <<call, runVars, dispVars>>
    /\ UNCHANGED storageVars

ApplyExtractTimePart001 ==
    /\ pc = "call"
    /\ ret' = extractTimeWithAmPm_part001(call)
    /\ pc' = "normalizedPart001"
    /\ UNCHANGED <<call, runVars, dispVars>>
    /\ UNCHANGED storageVars

NextTime == ApplyExtractTime \/ ApplyExtractTimePart001

SpecTime == InitTime /\ [][NextTime]_vars

\* A text of the forms H and H:MM, with or without suffix.
PlainTimeText(text) == text.sep \in {"", ":"}

\* C25: the normalization of src/parse.js honours the suffix: hour h in 1..11
\* with pm gives hour h + 12, 12 am gives hour 00, 12 pm gives hour 12; without
\* a suffix 24 gives 00 and any other hour is clamped to 0..23; the minutes are
\* clamped to 0..59.
C25_SuffixHonoured ==
    (pc = "normalized" /\ PlainTimeText(call)) =>
        /\ ret # NoTime
        /\ (call.suffix = "pm" /\ call.hour \in 1..11) => ret[1] = call.hour + 12
        /\ (call.suffix = "am" /\ call.hour = 12) => ret[1] = 0
        /\ (call.suffix = "pm" /\ call.hour = 12) => ret[1] = 12
        /\ call.suffix = "" => ret[1] = (IF call.hour = 24 THEN 0 ELSE Clamp(0, 23, call.hour))
        /\ ret[2] = Clamp(0, 59, call.minute)

----------------------------------------------------------------------------
(* Reading availability (parseTimeRanges, unionTimeRanges and the           *)
(* availability of parseCsvToObjects). An availability text is the sequence *)
(* of its comma-separated items; an item is one time text, or two time      *)
(* texts with the range delimiter "-" between them. The field pair          *)
(* `${start}-${end}` is the text of one two-time item.                      *)

MaxItems == 2

\* The absent (empty) CSV field.
NoText == <<>>

\* normalizeTime of src/calculator.js, on the texts H and H:MM: split on ":",
\* a missing minute part is NaN and becomes 0, both parts are clamped.
normalizeTime(text) ==
    <<Clamp(0, 23, text.hour), Clamp(0, 59, IF text.sep = ":" THEN text.minute ELSE 0)>>

\* A range is pushed as written, also when it ends before it starts.
addRangeUnsplit(ranges, start, end) ==
    IF timeToMinutes(start) = timeToMinutes(end) THEN ranges
    ELSE Append(ranges, Range(start, end))

\* The second half is pushed whatever the end is.
addRangeAlwaysSplit(ranges, start, end) ==
    IF timeToMinutes(start) = timeToMinutes(end) THEN ranges
    ELSE IF timeToMinutes(start) < timeToMinutes(end) THEN Append(ranges, Range(start, end))
    ELSE ranges \o <<Range(start, <<23, 59>>), Range(<<0, 0>>, end)>>

addRangeIfValid(ranges, start, end) ==
    IF timeToMinutes(start) = timeToMinutes(end) THEN ranges
    ELSE IF timeToMinutes(start) < timeToMinutes(end) THEN Append(ranges, Range(start, end))
    ELSE IF end # <<0, 0>>
         THEN ranges \o <<Range(start, <<23, 59>>), Range(<<0, 0>>, end)>>
         ELSE Append(ranges, Range(start, <<23, 59>>))

\* timeMatches of parseTimeRanges (src/parse.js): the time texts in the order
\* of the text, each with its normalization and with whether a range
\* delimiter stands between it and the next time text.
RECURSIVE TimeMatches(_)
TimeMatches(items) ==
    IF items = <<>> THEN <<>>
    ELSE LET item == Head(items)
         IN [i \in 1..Len(item) |->
                [normalized |-> extractTimeWithAmPm(item[i]),
                 delimiterNext |-> i < Len(item)]] \o TimeMatches(Tail(items))

\* The pairing loop of parseTimeRanges (src/parse.js).
RECURSIVE PairTimes(_, _, _)
PairTimes(i, timeMatches, ranges) ==
    IF i > Len(timeMatches) THEN ranges
    ELSE LET startTime == timeMatches[i].normalized
         IN IF i + 1 <= Len(timeMatches) /\ timeMatches[i].delimiterNext
            THEN PairTimes(i + 2, timeMatches,
                           addRangeIfValid(ranges, startTime, timeMatches[i + 1].normalized))
            ELSE PairTimes(i + 1, timeMatches,
                           addRangeIfValid(ranges, startTime, <<(startTime[1] + 1) % 24, 0>>))

parseTimeRanges(items) ==
    IF items = <<>> THEN <<>> ELSE PairTimes(1, TimeMatches(items), <<>>)

\* parseTimeRanges of src/calculator.js: a comma-separated piece that does not
\* split into two parts at "-" is skipped; a range that does not end after
\* its start is split.
RECURSIVE parseTimeRanges_calculator(_)
parseTimeRanges_calculator(items) ==
    IF items = <<>> THEN <<>>
    ELSE LET item == Head(items)
             start == normalizeTime(item[1])
             end == normalizeTime(item[2])
             emitted ==
                 IF Len(item) # 2 THEN <<>>
                 ELSE IF timeToMinutes(start) < timeToMinutes(end) THEN <<Range(start, end)>>
                 ELSE IF end # <<0, 0>>
                      THEN <<Range(start, <<23, 59>>), Range(<<0, 0>>, end)>>
                      ELSE <<Range(start, <<23, 59>>)>>
         IN emitted \o parseTimeRanges_calculator(Tail(items))

\* The first pass of unionTimeRanges: a range is kept unless an equal one
\* stands before it.
Unique(ranges) ==
    LET keep == {i \in 1..Len(ranges) : \A j \in 1..(i - 1) : ranges[j] # ranges[i]}
    IN [k \in 1..Cardinality(keep) |->
           ranges[CHOOSE i \in keep : Cardinality({j \in keep : j <= i}) = k]]

unionTimeRanges(ranges) ==
    LET unique == Unique(ranges)
    IN StableSortByKeys(unique, [i \in 1..Len(unique) |-> timeToMinutes(unique[i].start)])

\* /^\d{1,2}(:\d{2})?$/.test(text)
ValidSlotText(text) == text.sep \in {"", ":"} /\ text.suffix = ""

\* What parseCsvToObjects (src/parse.js) makes of the time fields of one row:
\* the candidate with its availability, or an error and no candidate.
parseCsvToObjects(row) ==
    LET startPresent == row.start # NoText
        endPresent == row.end # NoText
        hasTimeSlots == startPresent /\ endPresent
        hasAllTimes == row.allTimes # <<>>
        rejected == [players |-> <<>>, errors |-> <<"Time parsing error">>]
        accepted(ranges) == [players |-> <<[availableTimeRanges |-> ranges]>>, errors |-> <<>>]
        timeSlotRanges == parseTimeRanges(<<<<row.start, row.end>>>>)
        allTimesRanges == parseTimeRanges(row.allTimes)
    IN IF startPresent /\ ~ValidSlotText(row.start) THEN rejected
       ELSE IF endPresent /\ ~ValidSlotText(row.end) THEN rejected
       ELSE IF startPresent # endPresent THEN rejected
       ELSE IF ~hasTimeSlots /\ ~hasAllTimes THEN rejected
       ELSE IF hasTimeSlots /\ hasAllTimes
            THEN accepted(unionTimeRanges(timeSlotRanges \o allTimesRanges))
       ELSE IF hasTimeSlots THEN accepted(timeSlotRanges)
       ELSE accepted(allTimesRanges)

\* The time texts of the rows: 0, 2, 22 and 23:59.
ParseTexts ==
    {TimeText(0, "", 0, ""), TimeText(2, "", 0, ""), TimeText(22, "", 0, ""),
     TimeText(23, ":", 59, "")}

ParseItems == {<<a>> : a \in ParseTexts} \cup {<<a, b>> : a \in ParseTexts, b \in ParseTexts}

ParseItemLists == UNION {[1..n -> ParseItems] : n \in 0..MaxItems}

SlotFields == {NoText, TimeText(2, "", 0, ""), TimeText(22, "", 0, "")}

InitParse ==
    /\ pc = "call"
    /\ call \in {[start |-> a, end |-> b, allTimes |-> t] :
                    a \in SlotFields, b \in SlotFields, t \in ParseItemLists}
    /\ ret = <<>>
    /\ RunIdle
    /\ DispIdle
    /\ StorageIdle

ApplyParseTimeRanges ==
    /\ pc = "call"
    /\ ret' = parseTimeRanges(call.allTimes)
    /\ pc' = "parsed"
    /\ UNCHANGED <<call, runVars, dispVars>>
    /\ UNCHANGED storageVars

ApplyParseTimeRangesCalculator ==
    /\ pc = "call"
    /\ ret' = parseTimeRanges_calculator(call.allTimes)
    /\ pc' = "parsedCalculator"
    /\ UNCHANGED <<call, runVars, dispVars>>
    /\ UNCHANGED storageVars

ApplyParseCsvToObjects ==
    /\ pc = "call"
    /\ ret' = parseCsvToObjects(call)
    /\ pc' = "loaded"
    /\ UNCHANGED <<call, runVars, dispVars>>
    /\ UNCHANGED storageVars

\* The intervals the parser call has produced.
ProducedRanges ==
    IF pc = "loaded" THEN ret.players[1].availableTimeRanges ELSE ret

\* isSlotAvailable for the last slot of the day, on a candidate whose
\* availability is what the parser produced.
ApplyIsLastSlotAvailable ==
    /\ \/ pc \in {"parsed", "parsedCalculator"}
       \/ pc = "loaded" /\ ret.players # <<>>
    /\ call' = [ranges |-> ProducedRanges,
                slotStart |-> generateTimeSlots[48].start,
                slotEnd |-> generateTimeSlots[48].end]
    /\ ret' = isSlotAvailable(Player(1, 0, <<>>, 0, 0, 0, ProducedRanges),
                              generateTimeSlots[48].start, generateTimeSlots[48].end)
    /\ pc' = "lastSlotChecked"
    /\ UNCHANGED <<runVars, dispVars>>
    /\ UNCHANGED storageVars

NextParse ==
    \/ ApplyParseTimeRanges
    \/ ApplyParseTimeRangesCalculator
    \/ ApplyParseCsvToObjects
    \/ ApplyIsLastSlotAvailable

SpecParse == InitParse /\ [][NextParse]_vars

NoTwoIdentical(ranges) ==
    \A i, j \in 1..Len(ranges) : i # j => ranges[i] # ranges[j]

AscendingByStart(ranges) ==
    \A i, j \in 1..Len(ranges) :
        i < j => timeToMinutes(ranges[i].start) <= timeToMinutes(ranges[j].start)

\* C22: every candidate parseCsvToObjects returns has an availability list
\* without two identical (start, end) pairs and sorted ascending by start,
\* whether it came from the start/end pair alone, from the all-times text
\* alone, or from both.
C22_AvailabilityUniqueAndSorted ==
    pc = "loaded" =>
        \A i \in 1..Len(ret.players) :
            /\ NoTwoIdentical(ret.players[i].availableTimeRanges)
            /\ AscendingByStart(ret.players[i].availableTimeRanges)

\* The normalization the variant that produced ret applies to a time text.
NormalizedBy(variant, text) ==
    IF variant = "parsed" THEN extractTimeWithAmPm(text) ELSE normalizeTime(text)

\* The text consists of ranges only, none with equal start and end.
RangesOnly(variant, items) ==
    \A k \in 1..Len(items) :
        /\ Len(items[k]) = 2
        /\ NormalizedBy(variant, items[k][1]) # NormalizedBy(variant, items[k][2])

\* What C23 has a range emit.
DescribedIntervals(start, end) ==
    IF timeToMinutes(end) > timeToMinutes(start) THEN <<Range(start, end)>>
    ELSE IF end = <<0, 0>> THEN <<Range(start, <<23, 59>>)>>
    ELSE <<Range(start, <<23, 59>>), Range(<<0, 0>>, end)>>

RECURSIVE DescribedRanges(_, _)
DescribedRanges(variant, items) ==
    IF items = <<>> THEN <<>>
    ELSE DescribedIntervals(NormalizedBy(variant, Head(items)[1]),
                            NormalizedBy(variant, Head(items)[2]))
             \o DescribedRanges(variant, Tail(items))

\* C23: for every parsed range whose end is earlier than its start,
\* parseTimeRanges (both variants) emits exactly [start, 23:59] and
\* [00:00, end], in that order, and only [start, 23:59] when the end is 00:00;
\* a range whose end is later than its start is emitted unchanged.
C23_OvernightRangesSplit ==
    (pc \in {"parsed", "parsedCalculator"} /\ RangesOnly(pc, call.allTimes)) =>
        ret = DescribedRanges(pc, call.allTimes)

\* Witness of C23: the text "22-2, 22-0" was parsed by the variant of
\* src/parse.js: an overnight range with both halves and one ending at 00:00.
C23_Witness ==
    /\ pc = "parsed"
    /\ call.allTimes = <<<<TimeText(22, "", 0, ""), TimeText(2, "", 0, "")>>,
                         <<TimeText(22, "", 0, ""), TimeText(0, "", 0, "")>>>>
    /\ ret = <<Range(<<22, 0>>, <<23, 59>>), Range(<<0, 0>>, <<2, 0>>),
               Range(<<22, 0>>, <<23, 59>>)>>

----------------------------------------------------------------------------
(* unionTimeRanges on its own, applied to a list and then to its result.    *)

MaxUnion == 3

UnionTimes == {<<0, 0>>, <<0, 30>>, <<1, 0>>}

UnionRanges == {Range(a, b) : a \in UnionTimes, b \in UnionTimes}

UnionRangeLists == UNION {[1..n -> UnionRanges] : n \in 0..MaxUnion}

InitUnion ==
    /\ pc = "call"
    /\ call \in UnionRangeLists
    /\ ret = <<>>
    /\ RunIdle
    /\ DispIdle
    /\ StorageIdle

ApplyUnionTimeRanges ==
    /\ pc = "call"
    /\ ret' = <<unionTimeRanges(call)>>
    /\ pc' = "united"
    /\ UNCHANGED <<call, runVars, dispVars>>
    /\ UNCHANGED storageVars

ApplyUnionTimeRangesAgain ==
    /\ pc = "united"
    /\ ret' = Append(ret, unionTimeRanges(ret[1]))
    /\ pc' = "reunited"
    /\ UNCHANGED <<call, runVars, dispVars>>
    /\ UNCHANGED storageVars

NextUnion == ApplyUnionTimeRanges \/ ApplyUnionTimeRangesAgain

SpecUnion == InitUnion /\ [][NextUnion]_vars

\* C24: unionTimeRanges is idempotent: applied to its own result it returns
\* the same intervals in the same order.
C24_UnionIdempotent ==
    pc = "reunited" => ret[2] = ret[1]

\* Witness of C24: the list of three held a duplicate, which the first
\* application removed, leaving two different intervals with the same start
\* that are not the first two of the list; the second application has been
\* made.
C24_Witness ==
    /\ pc = "reunited"
    /\ Len(call) = 3
    /\ Len(ret[1]) = 2
    /\ ret[1][1].start = ret[1][2].start
    /\ ret[1][1] # ret[1][2]
    /\ ret[1] # SubSeq(call, 1, 2)

----------------------------------------------------------------------------
(* Export and import of the scheduler state: exportSchedulerData writes     *)
(* JSON.stringify(schedulerData); the import handler parses a file and      *)
(* hands the object to loadSchedulerSystem. Between the two, runs on other  *)
(* rosters change the state in memory.                                      *)

MaxLoadRuns == 2

\* The property name a day number is written as in the JSON text.
DayKey(day) == <<"1", "2", "3", "4", "5">>[day]

\* JSON.stringify(schedulerData) followed by JSON.parse: an object with one
\* member per own property of schedulerData (all have defined values after a
\* run), the appointment lists under the property names "1" to "5".
JsonRoundTrip(sd) ==
    [sd EXCEPT !.assignments =
        [k \in {DayKey(d) : d \in 1..5} |-> sd.assignments[CHOOSE d \in 1..5 : DayKey(d) = k]]]

\* A deep assignment: the entries of a flag map in memory that the source does
\* not have are kept.
ObjectAssignMergingFlags(target, source) ==
    LET merged(old, new) ==
            [id \in (DOMAIN old) \cup (DOMAIN new) |->
                IF id \in DOMAIN new THEN new[id] ELSE old[id]]
    IN [k \in (DOMAIN target) \cup (DOMAIN source) |->
           IF k \notin DOMAIN source THEN target[k]
           ELSE IF k \in {"constructionAssignments", "researchAssignments",
                          "trainingAssignments"} /\ k \in DOMAIN target
                THEN merged(target[k], source[k])
                ELSE source[k]]

\* Object.assign(target, source): every member of source replaces the member
\* of the same name, whole.
ObjectAssign(target, source) ==
    [k \in (DOMAIN target) \cup (DOMAIN source) |->
        IF k \in DOMAIN source THEN source[k] ELSE target[k]]

\* schedulerData.assignments[day] as the program reads it after the load (the
\* loaded object is the one parsed from the file, which isValidSchedulerData
\* requires to be there); a missing day 3 is given empty lists (line 1322).
AssignmentsByDay(assignments) ==
    [d \in 1..5 |->
        IF d = 3 /\ DayKey(d) \notin DOMAIN assignments
        THEN [ministers |-> <<>>, advisors |-> <<>>]
        ELSE assignments[DayKey(d)]]

\* The flag maps a snapshot of an older format carries as playerAssignments.
LegacyFlags(playerAssignments, flagName) ==
    [id \in {k \in DOMAIN playerAssignments : playerAssignments[k][flagName]} |-> TRUE]

loadSchedulerSystem(sd, data) ==
    LET assigned == ObjectAssign(sd, data)
        legacy == "playerAssignments" \in DOMAIN data
                      /\ DOMAIN assigned.constructionAssignments = {}
    IN [assigned EXCEPT
           !.assignments = AssignmentsByDay(@),
           !.constructionAssignments =
               IF legacy THEN LegacyFlags(data.playerAssignments, "ministerAssigned") ELSE @,
           !.researchAssignments =
               IF legacy THEN LegacyFlags(data.playerAssignments, "ministerAssigned") ELSE @,
           !.trainingAssignments =
               IF legacy /\ DOMAIN @ = {}
               THEN LegacyFlags(data.playerAssignments, "advisorAssigned") ELSE @]

InitLoad == InitRerun

\* processAndSchedule is called with another roster.
RunAgain ==
    /\ pc = "done"
    /\ Len(earlier) < MaxLoadRuns
    /\ players' \in RerunRosters
    /\ inputs' \in RerunInputs
    /\ pc' = "ready"
    /\ UNCHANGED <<schedulerData, filtered, tempWaitingList, consolidatedWaitingList, stage,
                   earlier, manualVars, dispVars, pureVars>>
    /\ UNCHANGED storageVars

\* The export button after a run (creationTimeMS is set): call holds the
\* parsed content of the file written, ret the state it was written from.
ExportSchedulerData ==
    /\ pc = "done"
    /\ call = <<>>
    /\ call' = JsonRoundTrip(schedulerData)
    /\ ret' = schedulerData
    /\ UNCHANGED <<pc, runVars, dispVars>>
    /\ UNCHANGED storageVars

\* The import of the exported file: it has the required fields, so
\* loadSchedulerSystem is called with it and sets the three inputs.
ImportSchedulerData ==
    /\ pc = "done"
    /\ call # <<>>
    /\ schedulerData' = loadSchedulerSystem(schedulerData, call)
    /\ inputs' = [minHoursInput |-> call.minHours,
                  constructionKingDay |-> schedulerData'.constructionKingDay,
                  researchKingDay |-> schedulerData'.researchKingDay]
    /\ pc' = "loaded"
    /\ UNCHANGED <<players, filtered, tempWaitingList, consolidatedWaitingList, stage,
                   earlier, manualVars, dispVars, pureVars>>
    /\ UNCHANGED storageVars

NextLoad ==
    \/ StartRun
    \/ FirstRound
    \/ DisplaceIterate
    \/ FinalizeConstruction
    \/ FinalizeResearch
    \/ FinalizeAdvisorStage
    \/ FinalizeOverflowStage
    \/ Consolidate
    \/ Spillover
    \/ LastResort
    \/ RunAgain
    \/ ExportSchedulerData
    \/ ImportSchedulerData

SpecLoad == InitLoad /\ [][NextLoad]_vars

----------------------------------------------------------------------------
(* allocateGeneralSpeedups on its own. The 'general used for' field is free *)
(* text: its comma-separated pieces are whatever the roster holds.          *)

MaxCategories == 3

\* The trimmed, lower-cased pieces a field is made of: the three categories,
\* the short form "training", an empty piece and a word that names no score.
CategoryTexts == {"construction", "research", "soldier training", "training", "", "healing"}

\* Pools for which every share the function computes is a whole number of half
\* hours.
GeneralPools == {0, Hours(30), Hours(60)}

UsedForLists == UNION {[1..n -> CategoryTexts] : n \in 0..MaxCategories}

InitAllocate ==
    /\ pc = "call"
    /\ call \in {Player(1, g, u, Hours(10), Hours(20), 0, <<>>) :
                    g \in GeneralPools, u \in UsedForLists}
    /\ ret = <<>>
    /\ RunIdle
    /\ DispIdle
    /\ StorageIdle

ApplyAllocateGeneralSpeedups ==
    /\ pc = "call"
    /\ ret' = allocateGeneralSpeedups(call)
    /\ pc' = "allocated"
    /\ UNCHANGED <<call, runVars, dispVars>>
    /\ UNCHANGED storageVars

NextAllocate == ApplyAllocateGeneralSpeedups

SpecAllocate == InitAllocate /\ [][NextAllocate]_vars

\* The categories listed in the field, as the scores they name.
ListedCategories(player) ==
    LET named == [i \in 1..Len(player.generalUsedFor) |->
                     IF player.generalUsedFor[i] = "training" THEN "soldier training"
                     ELSE player.generalUsedFor[i]]
    IN SelectSeq(named, LAMBDA c : c # "")

\* The share C27 gives the category listed at position i of n.
DescribedShare(pool, n, i) ==
    IF n = 2 THEN (IF i = 1 THEN (pool * 6) \div 10 ELSE (pool * 4) \div 10)
    ELSE pool \div n

\* The score C27 describes for a category after the allocation.
DescribedScore(player, category, base) ==
    LET listed == ListedCategories(player)
        n == Len(listed)
    IN IF n = 0 THEN base + player.generalSpeedups \div 3
       ELSE base + SeqSum([i \in 1..n |->
                              IF listed[i] = category
                              THEN DescribedShare(player.generalSpeedups, n, i) ELSE 0])

\* C27: allocateGeneralSpeedups distributes the whole general pool: 60% to the
\* first and 40% to the second of two listed categories, even shares to one or
\* three listed categories, even shares to all three scores when none is
\* listed; in every case construction + research + soldier training grows by
\* exactly the pool.
C27_WholePoolDistributed ==
    pc = "allocated" =>
        /\ ret.construction = DescribedScore(call, "construction", call.construction)
        /\ ret.research = DescribedScore(call, "research", call.research)
        /\ ret.soldierTraining =
               DescribedScore(call, "soldier training", call.soldierTraining)
        /\ getAllSpeedupsSum(ret) = getAllSpeedupsSum(call) + call.generalSpeedups

----------------------------------------------------------------------------
(* Where the passes of a run leave the candidates.                          *)

\* The minutes of the window [start, start + 30 min) that the intervals
\* declare, an interval at a time.
DeclaredInWindow(ranges, start) ==
    LET s == timeToMinutes(start)
        inside(range) ==
            LET from == SetMax({s, timeToMinutes(range.start)})
                to == SetMin({s + 30, timeToMinutes(range.end)})
            IN IF to > from THEN to - from ELSE 0
    IN SeqSum([i \in 1..Len(ranges) |-> inside(ranges[i])])

\* C28: every candidate a run has assigned to a slot, if it has at least one
\* availability interval, has at least 10 minutes of declared availability
\* inside the 30-minute window [slot start, slot start + 30 min) of the slot.
C28_AvailableInsideSlotWindow ==
    \A d \in 1..5 : \A role \in Roles :
        \A i \in 1..Len(schedulerData.assignments[d][role]) :
            LET a == schedulerData.assignments[d][role][i]
                p == Holder(schedulerData, a)
            IN p.availableTimeRanges # <<>>
                   => DeclaredInWindow(p.availableTimeRanges, a.start) >= 10

\* The slots of the grid no pairing of the pass claims.
UnclaimedSlots ==
    {k \in 1..Len(generateTimeSlots) :
        \A j \in 1..Len(assignedPlayerSlots) :
            assignedPlayerSlots[j].slot.start # generateTimeSlots[k].start}

\* C29: when a king-day minister pass (assignFirstPass, then
\* performDisplacement) has finished, no candidate it leaves pending is
\* available for a slot of the grid that the pass left unclaimed.
C29_NoPendingFitsUnclaimedSlot ==
    (/\ pc = "displace"
     /\ stage \in {"construction", "research"}
     /\ ~DisplacementContinues(changed, unscheduled))
        => \A i \in 1..Len(unscheduled) : \A k \in UnclaimedSlots :
               ~isSlotAvailable(unscheduled[i], generateTimeSlots[k].start,
                                generateTimeSlots[k].end)

----------------------------------------------------------------------------
(* Further properties of the parsed availability.                           *)

\* C36: parseTimeRanges (both variants) never emits an interval whose start
\* is equal to or later than its end, the first half of a split overnight
\* range included.
C36_EmittedIntervalsStartBeforeEnd ==
    pc \in {"parsed", "parsedCalculator"} =>
        \A i \in 1..Len(ret) : timeToMinutes(ret[i].start) < timeToMinutes(ret[i].end)

----------------------------------------------------------------------------
(* Further properties of a full run.                                        *)

\* C32: after a full run no candidate appears more than once in the same
\* (day, role) appointment list, whatever the two king days are, equal or not.
C32_NoCandidateTwiceInList ==
    pc = "done" =>
        \A d \in 1..5 : \A role \in Roles :
            LET appointments == schedulerData.assignments[d][role]
            IN \A i, j \in 1..Len(appointments) :
                   i # j => \/ appointments[i].player # appointments[j].player
                            \/ appointments[i].alliance # appointments[j].alliance

----------------------------------------------------------------------------
(* Runs on rosters with scores that are not whole hours (the roster file    *)
(* holds decimal numbers): four candidates of whom three can only take the  *)
(* slot 00:00.                                                              *)

\* Construction and research scores of the fourth candidate, in half hours:
\* 9.5 and 10 hours.
FractionalScores == {19, Hours(10)}

OnlyFirstSlot == <<Range(<<0, 0>>, <<0, 30>>)>>

FractionalRosters ==
    {<<Player(1, 0, <<>>, Hours(30), Hours(30), Hours(30), <<>>),
       Player(2, 0, <<>>, Hours(25), 0, 0, OnlyFirstSlot),
       Player(3, 0, <<>>, Hours(15), Hours(25), 0, OnlyFirstSlot),
       Player(4, 0, <<>>, Hours(20), c, r, OnlyFirstSlot)>> :
          c \in FractionalScores, r \in FractionalScores}

InitDayThree ==
    /\ pc = "ready"
    /\ players \in FractionalRosters
    /\ inputs \in [minHoursInput : {20}, constructionKingDay : KingDays, researchKingDay : KingDays]
    /\ schedulerData = InitialSchedulerData
    /\ filtered = <<>>
    /\ tempWaitingList = <<>>
    /\ consolidatedWaitingList = <<>>
    /\ stage = "none"
    /\ earlier = <<>>
    /\ newPlayer = <<>>
    /\ assignmentsMade = 0
    /\ operations = 0
    /\ outcome = "none"
    /\ DispIdle
    /\ PureIdle
    /\ StorageIdle

SpecDayThree == InitDayThree /\ [][Next]_vars

\* C37: a candidate holds a Day 3 minister appointment after a run only if its
\* unrounded construction + research sum is at least minHours.
C37_DayThreeNeedsActualSum ==
    pc = "done" =>
        \A i \in 1..Len(schedulerData.assignments[3].ministers) :
            LET p == Holder(schedulerData, schedulerData.assignments[3].ministers[i])
            IN p.construction + p.research >= Hours(schedulerData.minHours)

SpilloverDays(sd) == {1, 2, 5} \ {sd.constructionKingDay, sd.researchKingDay}

\* The candidate with this id holds an appointment of the role on one of the days.
HoldsOn(sd, id, days, role) ==
    \E d \in days : \E i \in 1..Len(sd.assignments[d][role]) :
        PlayerId(sd.assignments[d][role][i]) = id

\* The ids whose flag is true in the map.
Raised(map) == {id \in DOMAIN map : map[id] = TRUE}

\* C31: after a run followed by manual assign, reassign, remove-assignment and
\* remove-user operations, a candidate's construction, research or training
\* flag is true only if the candidate holds an appointment that accounts for
\* it: construction by a minister slot on the construction king day, Day 3 or
\* a spillover day; research by a minister slot on the research king day,
\* Day 4, Day 3 or a spillover day; training by a Day 4 advisor slot or a
\* Day 3 minister slot.
C31_FlagsAccountedFor ==
    (pc = "done" /\ newPlayer = <<>>) =>
        /\ \A id \in Raised(schedulerData.constructionAssignments) :
               HoldsOn(schedulerData, id,
                       {schedulerData.constructionKingDay, 3} \cup SpilloverDays(schedulerData),
                       "ministers")
        /\ \A id \in Raised(schedulerData.researchAssignments) :
               HoldsOn(schedulerData, id,
                       {schedulerData.researchKingDay, 4, 3} \cup SpilloverDays(schedulerData),
                       "ministers")
        /\ \A id \in Raised(schedulerData.trainingAssignments) :
               \/ HoldsOn(schedulerData, id, {4}, "advisors")
               \/ HoldsOn(schedulerData, id, {3}, "ministers")

\* The (alliance, name) pair of a record differs from that of the candidate.
OtherThan(record, candidate) ==
    record.alliance # candidate.alliance \/ record.player # candidate.player

\* What submitRemoveUser is to leave of a list when the candidate is selected.
Others(list, candidate) == SelectSeq(list, LAMBDA r : OtherThan(r, candidate))

\* The appointments of a list as a set.
Members(list) == {list[i] : i \in 1..Len(list)}

\* The step from sd to after removes everything of the candidate and nothing
\* of anybody else.
RemovesOnly(sd, after, candidate) ==
    /\ after.rawPlayers = Others(sd.rawPlayers, candidate)
    /\ after.processedPlayers = Others(sd.processedPlayers, candidate)
    /\ after.filteredOut = Others(sd.filteredOut, candidate)
    /\ after.waitingList = Others(sd.waitingList, candidate)
    /\ \A d \in 1..5 : \A role \in Roles :
           Members(after.assignments[d][role]) = Members(Others(sd.assignments[d][role], candidate))
    /\ \A name \in {"constructionAssignments", "researchAssignments", "trainingAssignments"} :
           /\ PlayerId(candidate) \notin DOMAIN after[name]
           /\ \A i \in 1..Len(sd.processedPlayers) :
                  LET q == sd.processedPlayers[i]
                  IN OtherThan(q, candidate) =>
                         /\ PlayerId(q) \in DOMAIN after[name] <=> PlayerId(q) \in DOMAIN sd[name]
                         /\ Flag(after[name], PlayerId(q)) = Flag(sd[name], PlayerId(q))

\* C33: a step of submitRemoveUser (the only step that shortens the roster)
\* removes every roster record, appointment, waiting entry, filtered-out entry
\* and flag of one selected candidate and leaves those of every candidate with
\* a different (alliance, name) pair as they were, whatever characters the
\* names contain.
C33_RemoveUserTouchesOnlySelected ==
    [][(/\ pc = "done"
        /\ Len(schedulerData'.processedPlayers) < Len(schedulerData.processedPlayers))
           => \E i \in 1..Len(schedulerData.processedPlayers) :
                  RemovesOnly(schedulerData, schedulerData', schedulerData.processedPlayers[i])]_vars

----------------------------------------------------------------------------
(* Persistence (src/storage.js). saveSchedulerData is an async function: it *)
(* runs up to its first await inside the handler that calls it and resumes   *)
(* after each await when the awaited file-system call has resolved. Handlers *)
(* run to completion, so a save resumes only between handlers; the order in  *)
(* which the calls of different saves resolve is not fixed. data is the      *)
(* global schedulerData object itself, read when the save reaches            *)
(* JSON.stringify. A run sets creationTimeMS and the management actions      *)
(* leave it alone, so all saves after one run name the same file.            *)

\* saveSchedulerData(schedulerData) up to its first await (lines 14-26):
\* creationTimeMS is set, OPFS is supported, getDirectory() is pending.
StartSave ==
    /\ saves' = Append(saves, [awaiting |-> "getDirectory", text |-> <<>>])
    /\ UNCHANGED file

\* processAndSchedule: the end of calculateScheduleData, then the save.
LastResortAndSave ==
    /\ LastResortStep
    /\ StartSave

\* The management actions with the save finishManagementAction starts.
PerformAssignmentAndSave ==
    /\ PerformAssignmentStep
    /\ StartSave

RemoveAssignmentAndSave ==
    /\ RemoveAssignmentStep
    /\ StartSave

SubmitRemoveUserAndSave ==
    /\ SubmitRemoveUserStep
    /\ StartSave

\* A save moves on from one await to the next.
Advance(i, from, to, text) ==
    /\ pc = "done"
    /\ saves[i].awaiting = from
    /\ saves' = [saves EXCEPT ![i] = [awaiting |-> to, text |-> text]]
    /\ UNCHANGED <<file, pc, runVars, dispVars, pureVars>>

\* Lines 26-28: getDirectory() has resolved, getFileHandle is called.
GetDirectoryResolves ==
    \E i \in 1..Len(saves) : Advance(i, "getDirectory", "getFileHandle", <<>>)

\* Lines 28-29: getFileHandle has resolved, createWritable is called.
GetFileHandleResolves ==
    \E i \in 1..Len(saves) : Advance(i, "getFileHandle", "createWritable", <<>>)

\* Lines 29-30: createWritable has resolved; JSON.stringify(data) reads the
\* state as it is now and the text is written to the stream.
CreateWritableResolves ==
    \E i \in 1..Len(saves) :
        Advance(i, "createWritable", "write", JsonRoundTrip(schedulerData))

\* Lines 30-31: write has resolved, close is called.
WriteResolves ==
    \E i \in 1..Len(saves) : Advance(i, "write", "close", saves[i].text)

\* Line 31: close has resolved; the content of the stream has replaced the
\* content of the file, and the save returns.
CloseResolves ==
    /\ pc = "done"
    /\ \E i \in 1..Len(saves) :
           /\ saves[i].awaiting = "close"
           /\ file' = saves[i].text
           /\ saves' = RemoveAt(saves, i)
    /\ UNCHANGED <<pc, runVars, dispVars, pureVars>>

\* Two candidates for the 00:00 slot of the construction king day, the
\* second displacing the first, and the same with a third candidate below
\* every threshold.
SaveRosters ==
    {<<Player(1, 0, <<>>, 0, Hours(20), 0, OnlyFirstSlot),
       Player(2, 0, <<>>, 0, Hours(30), 0, OnlyFirstSlot)>>,
     <<Player(1, 0, <<>>, 0, Hours(20), 0, OnlyFirstSlot),
       Player(2, 0, <<>>, 0, Hours(30), 0, OnlyFirstSlot),
       Player(3, 0, <<>>, Hours(5), Hours(5), Hours(5), <<>>)>>}

InitSave ==
    /\ pc = "ready"
    /\ players \in SaveRosters
    /\ inputs = [minHoursInput |-> 20, constructionKingDay |-> 1, researchKingDay |-> 2]
    /\ schedulerData = InitialSchedulerData
    /\ filtered = <<>>
    /\ tempWaitingList = <<>>
    /\ consolidatedWaitingList = <<>>
    /\ stage = "none"
    /\ earlier = <<>>
    /\ newPlayer = <<>>
    /\ assignmentsMade = 0
    /\ operations = 0
    /\ outcome = "none"
    /\ DispIdle
    /\ PureIdle
    /\ StorageIdle

NextSave ==
    \/ StartRun
    \/ FirstRound
    \/ DisplaceIterate
    \/ FinalizeConstruction
    \/ FinalizeResearch
    \/ FinalizeAdvisorStage
    \/ FinalizeOverflowStage
    \/ Consolidate
    \/ Spillover
    \/ LastResortAndSave
    \/ PerformAssignmentAndSave
    \/ RemoveAssignmentAndSave
    \/ SubmitRemoveUserAndSave
    \/ GetDirectoryResolves
    \/ GetFileHandleResolves
    \/ CreateWritableResolves
    \/ WriteResolves
    \/ CloseResolves

SpecSave == InitSave /\ [][NextSave]_vars

\* C34: once every save that was started has completed, the file holds the
\* state after the latest action, also when an action started its save while
\* the save of an earlier action was still running.
C34_FileHoldsLatestState ==
    (pc = "done" /\ saves = <<>>) => file = JsonRoundTrip(schedulerData)

=============================================================================
